---- MODULE Spec2Model ----
(***************************************************************************)
(* Model of the multi-strategy IDOR detection engine of idor-pwn:          *)
(* AdvancedIDORDetector.comprehensive_scan launches the enabled strategies *)
(* (pattern matching, heuristic, differential, blind), gathers their       *)
(* results, and fuses them per object id into AdvancedDetectionResult      *)
(* records.                                                                *)
(*                                                                         *)
(* Confidences and risk scores are kept in hundredths (0.8 is 80).         *)
(* Dictionaries are functions; a dictionary whose keys vary carries the    *)
(* set of keys it holds in a field `keys`.                                 *)
(***************************************************************************)
EXTENDS Integers, Sequences, FiniteSets, TLC

\* Longest caller-supplied object_ids sequence explored.
MaxLen == 2
\* The object id values explored: 0 is also the first position of the blind
\* result list, 1 the second.
ObjectIdValues == {0, 1}

SeqsUpTo(S, n) == UNION {[1..k -> S] : k \in 0..n}

Range(s) == {s[i] : i \in DOMAIN s}

Max(S) == CHOOSE m \in S : \A x \in S : x <= m

Least(S) == CHOOSE m \in S : \A x \in S : m <= x

Min2(a, b) == IF a <= b THEN a ELSE b

RECURSIVE SeqMax(_)
SeqMax(s) == IF Len(s) = 1 THEN s[1]
             ELSE LET m == SeqMax(Tail(s)) IN IF s[1] >= m THEN s[1] ELSE m

\* Anomaly entries without an 'object_id' key carry this value.
NoObjectId == -1

-----------------------------------------------------------------------------
(* Names *)

PATTERN_BASED == "pattern_based"
HEURISTIC == "heuristic"
DIFFERENTIAL == "differential"
BLIND == "blind"

Strategies == {PATTERN_BASED, HEURISTIC, DIFFERENTIAL, BLIND}

\* AdvancedIDORDetector.VULNERABILITY_TYPES_RU: the translated names are
\* transliterated; a key that is not in the table is returned unchanged.
VULNERABILITY_TYPES_RU ==
  [ horizontal |-> "Gorizontalnyj IDOR",
    vertical |-> "Vertikalnyj IDOR",
    context_dependent |-> "Kontekstno-zavisimyj IDOR",
    blind |-> "Slepaya detekciya",
    pattern_based |-> "Pattern-matching",
    heuristic |-> "Evristicheskij analiz",
    differential |-> "Differencialnyj analiz",
    heuristic_anomaly |-> "Evristicheskaya anomaliya",
    content_size_difference |-> "Razlichie v razmere kontenta",
    html_id_parameter |-> "ID parametr v HTML",
    privilege_escalation |-> "Povyshenie privilegij",
    data_exposure |-> "Raskrytie dannyh",
    auth_bypass |-> "Obhod autentifikacii",
    functionality_access |-> "Dostup k funkcionalu",
    blind_timing |-> "Slepaya detekciya po vremeni otklika",
    blind_error |-> "Slepaya detekciya po patternam oshibok",
    blind_response_variance |-> "Slepaya detekciya po variativnosti otvetov",
    blind_behavioral |-> "Slepaya detekciya po povedeniyu",
    blind_sequential |-> "Slepaya detekciya po posledovatelnym zaprosam",
    blind_side_channel |-> "Slepaya detekciya po pobochnym kanalam",
    timing_based |-> "Slepaya detekciya po vremeni",
    error_pattern |-> "Slepaya detekciya po patternam oshibok",
    response_variance |-> "Slepaya detekciya po variativnosti otvetov",
    unique_pattern |-> "Unikalnyj pattern",
    excessive_pattern |-> "Chastyj pattern",
    unique_response |-> "Unikalnyj otvet",
    high_uniqueness |-> "Vysokaya unikalnost",
    blind_response_analysis |-> "Analiz otvetov slepoj detekcii" ]

translate_vulnerability_type(vuln_type) ==
  IF vuln_type \in DOMAIN VULNERABILITY_TYPES_RU
  THEN VULNERABILITY_TYPES_RU[vuln_type]
  ELSE vuln_type

\* IDORType values (patterns.py), transliterated.
IDOR_VERTICAL == "vertikalnyj"
IDOR_CONTEXT_DEPENDENT == "kontekstno-zavisimyj"

-----------------------------------------------------------------------------
(* Records *)

\* One entry of a fused `vulnerabilities` list: {'type', 'confidence', 'evidence'}.
\* evidence.kind tells which payload the entry carries; evidence.anomalies is
\* the 'anomalies' / 'timing_anomalies' list of a blind payload (the object
\* ids it names), empty for the other payloads.
Vulnerability(type, confidence, kind, anomalies) ==
  [type |-> type, confidence |-> confidence,
   evidence |-> [kind |-> kind, anomalies |-> anomalies]]

\* BlindTestResult: evidence.keys is the key set of the evidence dictionary.
\* evidence.anomalies is its 'anomalies' or 'timing_anomalies' list, each entry
\* given by the object id it names (NoObjectId when it has no 'object_id').
BlindTestResult(method, confidence, evidence_keys, anomalies) ==
  [method |-> method, confidence |-> confidence,
   evidence |-> [keys |-> evidence_keys, anomalies |-> anomalies]]

NoHeuristics == [is_suspicious |-> FALSE, confidence |-> 0]
NoDifferential == [vulnerability_type |-> "", confidence |-> 0, risk_score |-> 0]

\* A per-object bucket of a strategy's 'results' dictionary.
ObjData(keys, vulnerabilities, heuristics, differential, blind_detections) ==
  [keys |-> keys, vulnerabilities |-> vulnerabilities, heuristics |-> heuristics,
   differential |-> differential, blind_detections |-> blind_detections]

ErrorData == ObjData({"error"}, <<>>, NoHeuristics, NoDifferential, <<>>)

EmptyResults == [k \in {} |-> ErrorData]

\* What asyncio.gather(..., return_exceptions=True) holds for a task.
\* `exception` names the exception object of a task that raised: what
\* session_factory raised ("SessionError"), or the UnboundLocalError of
\* reading pattern_results before its first assignment.
Pending(strategy) ==
  [status |-> "pending", strategy |-> strategy, error |-> FALSE,
   exception |-> "", results |-> EmptyResults]
Raised(strategy, exception) ==
  [status |-> "raised", strategy |-> strategy, error |-> FALSE,
   exception |-> exception, results |-> EmptyResults]
Returned(strategy, error, results) ==
  [status |-> "returned", strategy |-> strategy, error |-> error,
   exception |-> "", results |-> results]

-----------------------------------------------------------------------------
(* Helpers on dictionaries and id sequences *)

Put(dict, key, value) ==
  [k \in (DOMAIN dict) \cup {key} |-> IF k = key THEN value ELSE dict[k]]

\* The ids of object_ids in order of first occurrence: the key order of a
\* dictionary filled by iterating object_ids.
RECURSIVE DistinctIds(_)
DistinctIds(object_ids) ==
  IF object_ids = <<>> THEN <<>>
  ELSE LET front == DistinctIds(SubSeq(object_ids, 1, Len(object_ids) - 1))
           last == object_ids[Len(object_ids)]
       IN IF last \in Range(front) THEN front ELSE Append(front, last)

-----------------------------------------------------------------------------
(* Pattern-matching strategy: AdvancedIDORDetector._pattern_based_detection *)

\* What the request for one object does inside the strategy:
\*   "exc"    the request (or the analysis of its body) raises
\*   "non200" a response whose status is not 200
\*   "clean"  status 200, PatternMatcher.analyze returns no finding
\*   "vuln"   status 200, PatternMatcher.analyze returns PatternFindings
PatternResponses == {"exc", "non200", "clean", "vuln"}

VERTICAL_SENSITIVE_CONFIDENCE == 60
CONTEXT_DEPENDENT_CONFIDENCE == 50

\* The findings PatternMatcher.analyze returns for a "vuln" body: the vertical
\* pattern on a sensitive field and the context-dependent pattern. type is
\* pattern.idor_type.value.
PatternFindings ==
  << Vulnerability(IDOR_VERTICAL, VERTICAL_SENSITIVE_CONFIDENCE, "pattern", <<>>),
     Vulnerability(IDOR_CONTEXT_DEPENDENT, CONTEXT_DEPENDENT_CONFIDENCE, "pattern", <<>>) >>

\* Lines 149-179: the first id answered with status 200 gives the baseline.
PatternBaselineFound(object_ids, responses) ==
  \E i \in DOMAIN object_ids : responses[object_ids[i]] \in {"clean", "vuln"}

\* Lines 183-267, one iteration of the analysis loop. st.bound tells whether
\* the local pattern_results has been assigned; line 267 reads it whenever
\* obj_id is in results, outside the try block.
PatternAnalyzeObject(st, obj_id, response) ==
  IF st.raised THEN st
  ELSE LET after_try ==
             CASE response = "exc" ->
                    [st EXCEPT !.results = Put(@, obj_id, ErrorData)]
               [] response = "non200" -> st
               [] response = "clean" -> [st EXCEPT !.bound = TRUE]
               [] response = "vuln" ->
                    [st EXCEPT !.bound = TRUE,
                               !.results = Put(@, obj_id,
                                  ObjData({"vulnerabilities", "baseline_data", "current_data"},
                                          PatternFindings, NoHeuristics, NoDifferential, <<>>))]
       IN IF obj_id \in DOMAIN after_try.results /\ ~after_try.bound
          THEN [after_try EXCEPT !.raised = TRUE]
          ELSE after_try

RECURSIVE PatternAnalysisLoop(_, _, _)
PatternAnalysisLoop(object_ids, responses, i) ==
  IF i = 0 THEN [results |-> EmptyResults, bound |-> FALSE, raised |-> FALSE]
  ELSE PatternAnalyzeObject(PatternAnalysisLoop(object_ids, responses, i - 1),
                            object_ids[i], responses[object_ids[i]])

pattern_based_detection(object_ids, factory_ok, responses) ==
  IF ~factory_ok THEN Raised(PATTERN_BASED, "SessionError")
  ELSE IF ~PatternBaselineFound(object_ids, responses)
  THEN Returned(PATTERN_BASED, FALSE, EmptyResults)
  ELSE LET st == PatternAnalysisLoop(object_ids, responses, Len(object_ids))
       IN IF st.raised THEN Raised(PATTERN_BASED, "UnboundLocalError")
          ELSE Returned(PATTERN_BASED, FALSE, st.results)

-----------------------------------------------------------------------------
(* Heuristic strategy: AdvancedIDORDetector._heuristic_detection *)

\* What the request for one object does inside the strategy:
\*   "exc"   the request or create_metrics raises
\*   "clean" analyze_response returns is_suspicious = False
\*   "susp"  analyze_response returns is_suspicious = True: the content size
\*           and the header indicators fired
HeuristicResponses == {"exc", "clean", "susp"}

CONTENT_SIZE_ANOMALY_CONFIDENCE == 20
HEADER_ANOMALY_CONFIDENCE == 15

SuspiciousHeuristics ==
  [is_suspicious |-> TRUE,
   confidence |-> CONTENT_SIZE_ANOMALY_CONFIDENCE + HEADER_ANOMALY_CONFIDENCE]

\* The analysis loop entered without the check of line 295.
HeuristicBaselineUnchecked(object_ids, responses) == TRUE

\* Lines 280-296: the first request that does not raise sets the baseline.
HeuristicBaselineFound(object_ids, responses) ==
  \E i \in DOMAIN object_ids : responses[object_ids[i]] # "exc"

\* Lines 299-314, one iteration of the analysis loop.
HeuristicAnalyzeObject(results, obj_id, response) ==
  CASE response = "exc" -> Put(results, obj_id, ErrorData)
    [] response = "clean" -> results
    [] response = "susp" ->
         Put(results, obj_id,
             ObjData({"heuristics", "metrics"}, <<>>, SuspiciousHeuristics,
                     NoDifferential, <<>>))

RECURSIVE HeuristicAnalysisLoop(_, _, _)
HeuristicAnalysisLoop(object_ids, responses, i) ==
  IF i = 0 THEN EmptyResults
  ELSE HeuristicAnalyzeObject(HeuristicAnalysisLoop(object_ids, responses, i - 1),
                              object_ids[i], responses[object_ids[i]])

heuristic_detection(object_ids, factory_ok, responses) ==
  IF ~factory_ok THEN Raised(HEURISTIC, "SessionError")
  ELSE IF ~HeuristicBaselineFound(object_ids, responses)
  THEN Returned(HEURISTIC, FALSE, EmptyResults)
  ELSE Returned(HEURISTIC, FALSE,
                HeuristicAnalysisLoop(object_ids, responses, Len(object_ids)))

-----------------------------------------------------------------------------
(* PatternMatcher (patterns.py) *)

\* Dictionaries (a response body, a baseline, a context) are functions from
\* field names to values; every value is given by its text, None by "None".
Get(dict, key, default) == IF key \in DOMAIN dict THEN dict[key] ELSE default

IDOR_HORIZONTAL == "gorizontalnyj"
IDOR_BLIND == "slepoj"

HORIZONTAL_CONFIDENCE == 80
VERTICAL_ADMIN_CONFIDENCE == 70
BLIND_PATTERN_CAP == 80

\* One entry of the list PatternMatcher.analyze returns.
PatternFinding(pattern, type, confidence) ==
  [pattern |-> pattern, type |-> type, confidence |-> confidence]

\* The owner field is in the response, whoever the current user is.
OwnerFieldPresent(response_data, context) ==
  Get(context, "ownership_field", "owner_id") \in DOMAIN response_data

\* HorizontalIDORPattern.analyze, lines 45-67: is_idor.
HorizontalIsIdor(response_data, context) ==
  LET owner_field == Get(context, "ownership_field", "owner_id")
      current_user_id == Get(context, "current_user_id", "None")
  IN /\ owner_field \in DOMAIN response_data
     /\ response_data[owner_field] # current_user_id

ADMIN_FIELDS == {"is_admin", "role", "permissions", "access_level"}
SENSITIVE_FIELDS == {"salary", "ssn", "credit_card", "internal_notes"}
UNPRIVILEGED_VALUES == {"None", "False", "0", "user"}

\* VerticalIDORPattern.analyze, lines 80-109.
FoundAdminFields(response_data) ==
  {f \in ADMIN_FIELDS \cap DOMAIN response_data :
     response_data[f] \notin UNPRIVILEGED_VALUES}

FoundSensitiveFields(response_data) == SENSITIVE_FIELDS \cap DOMAIN response_data

VerticalIsIdor(response_data) ==
  FoundAdminFields(response_data) # {} \/ FoundSensitiveFields(response_data) # {}

VerticalConfidence(response_data) ==
  IF FoundAdminFields(response_data) # {}
  THEN VERTICAL_ADMIN_CONFIDENCE ELSE VERTICAL_SENSITIVE_CONFIDENCE

STATUS_FIELDS == {"status", "state", "approved", "published", "active"}
TEMPORAL_FIELDS == {"created_at", "updated_at", "expires_at"}
RELEASED_VALUES == {"approved", "published", "active"}

\* ContextDependentIDORPattern.analyze, lines 123-158.
ContextDependentIsIdor(response_data, baseline_data, context) ==
  \/ \E f \in STATUS_FIELDS \cap DOMAIN response_data :
       /\ response_data[f] \in RELEASED_VALUES
       /\ Get(context, "user_role", "None") # "admin"
  \/ \E f \in TEMPORAL_FIELDS \cap DOMAIN response_data \cap DOMAIN baseline_data :
       response_data[f] # baseline_data[f]

\* The explored field names that match the expression .*id$ of line 210.
ID_LIKE_FIELDS == {"owner_id", "user_id"}

\* BlindIDORPattern.analyze, lines 170-225: the confidence accumulated by
\* lines 197-213, in hundredths.
BlindPatternScore(response_data, baseline_data) ==
  LET response_keys == DOMAIN response_data
      baseline_keys == DOMAIN baseline_data
      value_differences == {k \in response_keys \cap baseline_keys :
                              response_data[k] # baseline_data[k]}
  IN (IF response_keys \ baseline_keys # {} THEN 20 ELSE 0)
     + (IF baseline_keys \ response_keys # {} THEN 10 ELSE 0)
     + (IF Cardinality(value_differences) > 3 THEN 30 ELSE 0)
     + (IF Cardinality(response_keys \cap ID_LIKE_FIELDS) > 1 THEN 20 ELSE 0)

\* The pattern firing at the threshold itself.
BlindPatternFiresAtThreshold(response_data, baseline_data) ==
  BlindPatternScore(response_data, baseline_data) >= 40

\* Line 215: `if confidence > 0.4`.
BlindPatternIsIdor(response_data, baseline_data) ==
  BlindPatternScore(response_data, baseline_data) > 40

\* PatternMatcher.analyze, lines 239-262: the patterns in the order of
\* self.patterns, one entry for each that reports is_idor.
PatternMatcherAnalyze(response_data, baseline_data, context) ==
  (IF HorizontalIsIdor(response_data, context)
   THEN <<PatternFinding("Gorizontalnyj IDOR", IDOR_HORIZONTAL, HORIZONTAL_CONFIDENCE)>>
   ELSE <<>>)
  \o (IF VerticalIsIdor(response_data)
      THEN <<PatternFinding("Vertikalnyj IDOR", IDOR_VERTICAL,
                            VerticalConfidence(response_data))>>
      ELSE <<>>)
  \o (IF ContextDependentIsIdor(response_data, baseline_data, context)
      THEN <<PatternFinding("Kontekstno-zavisimyj IDOR", IDOR_CONTEXT_DEPENDENT,
                            CONTEXT_DEPENDENT_CONFIDENCE)>>
      ELSE <<>>)
  \o (IF BlindPatternIsIdor(response_data, baseline_data)
      THEN <<PatternFinding("Slepaya detekciya IDOR", IDOR_BLIND,
                            Min2(BlindPatternScore(response_data, baseline_data),
                                 BLIND_PATTERN_CAP))>>
      ELSE <<>>)

\* The confidence attribute of each pattern object after a call of analyze
\* that computed `findings`, had the patterns kept their verdict in it.
PatternAttributesStoringVerdict(attributes, findings) ==
  [name \in DOMAIN attributes |->
     IF \E i \in DOMAIN findings : findings[i].type = name
     THEN (CHOOSE f \in Range(findings) : f.type = name).confidence
     ELSE attributes[name]]

\* The confidence attribute of each pattern object (line 24) after a call of
\* analyze: the analyze methods assign locals only.
PatternAttributesAfter(attributes, findings) == attributes

\* All dictionaries over `fields` whose values are drawn from values[field].
DictsOver(fields, values) ==
  UNION {{d \in [K -> UNION {values[f] : f \in fields}] :
            \A k \in K : d[k] \in values[k]} : K \in SUBSET fields}

\* The response bodies explored.
ResponseFieldValues ==
  [owner_id |-> {"1", "101"}, user_id |-> {"1"}, role |-> {"admin"},
   salary |-> {"5000"}, status |-> {"active"}, created_at |-> {"t1", "t2"}]

ResponseDicts == DictsOver(DOMAIN ResponseFieldValues, ResponseFieldValues)

BaselineDicts == {<<>>, ("owner_id" :> "1") @@ ("created_at" :> "t1")}

ContextFieldValues ==
  [ownership_field |-> {"owner_id", "user_id"}, current_user_id |-> {"1"},
   user_role |-> {"admin"}]

ContextDicts == DictsOver(DOMAIN ContextFieldValues, ContextFieldValues)

PatternTriple(response_data, baseline_data, context) ==
  [response_data |-> response_data, baseline_data |-> baseline_data,
   context |-> context]

PatternTriples ==
  {PatternTriple(r, b, c) : r \in ResponseDicts, b \in BaselineDicts, c \in ContextDicts}

\* The triples of the calls made between two calls on one triple.
OtherTriples ==
  {PatternTriple(("owner_id" :> "101") @@ ("user_id" :> "1"), <<>>, <<>>),
   PatternTriple(("salary" :> "5000") @@ ("status" :> "active"),
                 ("owner_id" :> "1") @@ ("created_at" :> "t1"),
                 ("user_role" :> "admin")),
   PatternTriple(("created_at" :> "t2"),
                 ("owner_id" :> "1") @@ ("created_at" :> "t1"),
                 ("current_user_id" :> "1"))}

-----------------------------------------------------------------------------
(* HeuristicAnalyzer (heuristic.py) *)

\* ResponseMetrics. response_time is in tenths of a second; headers is the
\* dictionary of header names and values; body is the sequence of the
\* lower-case words of the text; json_data is the dictionary of a flat JSON
\* object with numeric values, the empty dictionary standing for None as well
\* (both are falsy).
ResponseMetrics(status_code, response_time, content_length, headers, body, json_data) ==
  [status_code |-> status_code, response_time |-> response_time,
   content_length |-> content_length, headers |-> headers, body |-> body,
   json_data |-> json_data]

BaseHeaders == ("content-type" :> "application/json")
TokenHeaders == ("content-type" :> "application/json") @@ ("x-auth-token" :> "t1")

NoJson == <<>>
ItemJson == ("id" :> 1) @@ ("owner_id" :> 1)
AdminJson == ("id" :> 1) @@ ("owner_id" :> 1) @@ ("role" :> 2)

\* The responses explored.
PlainMetrics == ResponseMetrics(200, 1, 100, BaseHeaders, <<"item", "data">>, ItemJson)
SlowMetrics == ResponseMetrics(200, 20, 100, BaseHeaders, <<"item", "data">>, ItemJson)
DeniedMetrics == ResponseMetrics(404, 1, 30, BaseHeaders, <<"not", "found">>, NoJson)
AdminMetrics == ResponseMetrics(200, 1, 100, TokenHeaders, <<"item", "data">>, AdminJson)
AlarmingMetrics == ResponseMetrics(403, 20, 2000, TokenHeaders, <<"access", "denied">>, AdminJson)
EmptyMetrics == ResponseMetrics(200, 0, 0, BaseHeaders, <<>>, NoJson)

MetricsExplored ==
  {PlainMetrics, SlowMetrics, DeniedMetrics, AdminMetrics, AlarmingMetrics, EmptyMetrics}

Abs(x) == IF x < 0 THEN -x ELSE x

\* _analyze_response_time, lines 119-133: time_diff > 0.5 or time_ratio > 2.0.
ResponseTimeAnomaly(baseline, metrics) ==
  LET time_diff == Abs(metrics.response_time - baseline.response_time)
  IN \/ time_diff > 5
     \/ /\ baseline.response_time > 0
        /\ time_diff > 2 * baseline.response_time

\* _analyze_content_size, lines 135-153: size_ratio > 0.3.
ContentSizeAnomaly(baseline, metrics) ==
  /\ baseline.content_length # 0
  /\ 10 * Abs(metrics.content_length - baseline.content_length)
       > 3 * baseline.content_length

SECURITY_AND_AUTH_HEADERS ==
  {"x-frame-options", "x-content-type-options", "x-xss-protection",
   "authorization", "x-auth-token", "session"}

\* _analyze_headers, lines 155-191.
HeaderAnomaly(baseline, metrics) ==
  \/ DOMAIN metrics.headers # DOMAIN baseline.headers
  \/ \E h \in SECURITY_AND_AUTH_HEADERS :
       /\ h \in DOMAIN baseline.headers
       /\ h \in DOMAIN metrics.headers
       /\ baseline.headers[h] # metrics.headers[h]

\* The thresholds['error_patterns'], each as its sequence of words.
ERROR_PATTERNS ==
  {<<"not", "found">>, <<"access", "denied">>, <<"forbidden">>,
   <<"unauthorized">>, <<"permission", "denied">>}

ContainsPhrase(body, phrase) ==
  \E i \in 1..Len(body) :
    /\ i + Len(phrase) - 1 <= Len(body)
    /\ SubSeq(body, i, i + Len(phrase) - 1) = phrase

REDIRECT_INDICATORS == {"redirect", "location", "moved"}

\* _calculate_similarity, lines 302-314, against thresholds['similarity_threshold']:
\* similarity < 0.7.
DissimilarBodies(text1, text2) ==
  IF text1 = <<>> \/ text2 = <<>> THEN TRUE
  ELSE 10 * Cardinality(Range(text1) \cap Range(text2))
         < 7 * Cardinality(Range(text1) \cup Range(text2))

\* _analyze_content, lines 193-225; no explored body holds HTML.
ContentAnomaly(baseline, metrics) ==
  \/ \E p \in ERROR_PATTERNS : ContainsPhrase(metrics.body, p)
  \/ Range(metrics.body) \cap REDIRECT_INDICATORS # {}
  \/ DissimilarBodies(baseline.body, metrics.body)

\* _analyze_json_structure, lines 227-270, entered only for a truthy
\* metrics.json_data (line 98); all explored values have the same type.
JsonStructureAnomaly(baseline, metrics) ==
  /\ metrics.json_data # NoJson
  /\ baseline.json_data # NoJson
  /\ \/ DOMAIN metrics.json_data # DOMAIN baseline.json_data
     \/ Cardinality({k \in DOMAIN baseline.json_data \cap DOMAIN metrics.json_data :
                       baseline.json_data[k] # metrics.json_data[k]}) > 3

\* response_history[-5:].
Recent(history) ==
  IF Len(history) <= 5 THEN history ELSE SubSeq(history, Len(history) - 4, Len(history))

\* _combined_analysis, lines 272-301: the history as it is before the
\* current metrics are appended.
CombinedAnomaly(history) ==
  /\ Len(history) >= 3
  /\ LET recent == Recent(history)
         status_codes == {recent[i].metrics.status_code : i \in DOMAIN recent}
         response_times == {recent[i].metrics.response_time : i \in DOMAIN recent}
         content_sizes == {recent[i].metrics.content_length : i \in DOMAIN recent}
     IN \/ Cardinality(status_codes) > 1
        \/ Max(response_times) - Least(response_times) > 10
        \/ Max(content_sizes) - Least(content_sizes) > 1000

RESPONSE_TIME_ANOMALY_CONFIDENCE == 20
CONTENT_ANOMALY_CONFIDENCE == 25
JSON_STRUCTURE_ANOMALY_CONFIDENCE == 20
COMBINED_ANOMALY_CONFIDENCE == 10
HEURISTIC_CONFIDENCE_CAP == 95

\* The accumulating `results` of analyze_response after one dimension.
AddIndicator(results, is_anomaly, name, increment) ==
  IF is_anomaly
  THEN [results EXCEPT !.indicators = Append(@, name),
                       !.confidence = @ + increment]
  ELSE results

\* Line 113 with confidence only.
IsSuspiciousByConfidence(indicators, confidence) == confidence > 50

\* Line 113: len(indicators) >= 2 or confidence > 0.5.
IsSuspicious(indicators, confidence) ==
  Len(indicators) >= 2 \/ confidence > 50

NoBaselineOutcome ==
  [keys |-> {"error"}, is_suspicious |-> FALSE, confidence |-> 0, indicators |-> <<>>]

\* analyze_response, lines 57-117, as a function of the analyzer's state: the
\* value it returns. baseline_opt is <<>> for None, else <<baseline>>.
analyze_response(baseline_opt, history, metrics) ==
  IF baseline_opt = <<>> THEN NoBaselineOutcome
  ELSE LET baseline == baseline_opt[1]
           r0 == [keys |-> {"is_suspicious", "confidence", "indicators", "details"},
                  is_suspicious |-> FALSE, confidence |-> 0, indicators |-> <<>>]
           r1 == AddIndicator(r0, ResponseTimeAnomaly(baseline, metrics),
                              "response_time_anomaly", RESPONSE_TIME_ANOMALY_CONFIDENCE)
           r2 == AddIndicator(r1, ContentSizeAnomaly(baseline, metrics),
                              "content_size_anomaly", CONTENT_SIZE_ANOMALY_CONFIDENCE)
           r3 == AddIndicator(r2, HeaderAnomaly(baseline, metrics),
                              "header_anomaly", HEADER_ANOMALY_CONFIDENCE)
           r4 == AddIndicator(r3, ContentAnomaly(baseline, metrics),
                              "content_anomaly", CONTENT_ANOMALY_CONFIDENCE)
           r5 == AddIndicator(r4, JsonStructureAnomaly(baseline, metrics),
                              "json_structure_anomaly", JSON_STRUCTURE_ANOMALY_CONFIDENCE)
           r6 == AddIndicator(r5, CombinedAnomaly(history),
                              "combined_anomaly", COMBINED_ANOMALY_CONFIDENCE)
       IN [r6 EXCEPT !.is_suspicious = IsSuspicious(r6.indicators, r6.confidence),
                     !.confidence = Min2(r6.confidence, HEURISTIC_CONFIDENCE_CAP)]

\* The metrics put in front of the history.
HistoryPrepended(baseline_opt, history, entry) ==
  IF baseline_opt = <<>> THEN history ELSE <<entry>> \o history

\* The metrics appended whether or not a baseline is set.
HistoryAlwaysAppended(baseline_opt, history, entry) == Append(history, entry)

\* The response history analyze_response leaves behind (line 116).
HistoryAfterAnalysis(baseline_opt, history, entry) ==
  IF baseline_opt = <<>> THEN history ELSE Append(history, entry)

-----------------------------------------------------------------------------
(* Differential strategy: AdvancedIDORDetector._differential_detection *)

\* What DifferentialAnalyzer._analyze_object_access returns for one object:
\*   "none"    no DifferentialResult (None)
\*   "privesc" guest and user both get 200: privilege_escalation is detected
\*             with confidence 0.8 and no other check fires
DifferentialOutcomes == {"none", "privesc"}

GUEST_ACCESS_CONFIDENCE == 80
PRIVILEGE_ESCALATION_WEIGHT == 40

PrivescResult ==
  [vulnerability_type |-> "privilege_escalation",
   confidence |-> GUEST_ACCESS_CONFIDENCE,
   risk_score |-> Min2((PRIVILEGE_ESCALATION_WEIGHT * GUEST_ACCESS_CONFIDENCE) \div 100, 100)]

\* Lines 327-334: results[result.object_id] = {...} for every emitted result.
RECURSIVE DifferentialResults(_, _, _)
DifferentialResults(object_ids, outcomes, i) ==
  IF i = 0 THEN EmptyResults
  ELSE LET rest == DifferentialResults(object_ids, outcomes, i - 1)
           obj_id == object_ids[i]
       IN IF outcomes[obj_id] = "privesc"
          THEN Put(rest, obj_id,
                   ObjData({"differential", "vulnerability_type", "confidence", "risk_score"},
                           <<>>, NoHeuristics, PrivescResult, <<>>))
          ELSE rest

differential_detection(object_ids, analyzer_ok, outcomes) ==
  IF ~analyzer_ok THEN Returned(DIFFERENTIAL, TRUE, EmptyResults)
  ELSE Returned(DIFFERENTIAL, FALSE,
                DifferentialResults(object_ids, outcomes, Len(object_ids)))

-----------------------------------------------------------------------------
(* DifferentialAnalyzer (differential.py) *)

\* One entry of access_results, lines 88-101. An entry of a request that
\* raised has no status_code, content_length, response_time or data: it is
\* given the defaults the checks read with .get. data is <<>> for None.
AccessResult(status_code, response_time, content_length, data) ==
  [status_code |-> status_code, response_time |-> response_time,
   content_length |-> content_length, data |-> data,
   accessible |-> status_code = 200]

FailedAccess == AccessResult(0, 0, 0, <<>>)

\* access_results.get(level, {}).
LevelAccess(access_results, level) ==
  IF level \in DOMAIN access_results THEN access_results[level] ELSE FailedAccess

ADMIN_ONLY_FIELDS_CONFIDENCE == 70
DIFFERENT_FIELDS_CONFIDENCE == 50

Check(detected, confidence) == [detected |-> detected, confidence |-> confidence]

\* _check_privilege_escalation, lines 163-209.
check_privilege_escalation(access_results) ==
  LET user_access == LevelAccess(access_results, "user")
      admin_access == LevelAccess(access_results, "admin")
      guest_access == LevelAccess(access_results, "guest")
      admin_only_fields == DOMAIN admin_access.data \ DOMAIN user_access.data
      different_fields == {k \in DOMAIN user_access.data \cap DOMAIN admin_access.data :
                             user_access.data[k] # admin_access.data[k]}
      by_data == IF /\ user_access.accessible
                    /\ admin_access.accessible
                    /\ (admin_only_fields # {} \/ different_fields # {})
                 THEN Check(TRUE, IF admin_only_fields # {}
                                  THEN ADMIN_ONLY_FIELDS_CONFIDENCE
                                  ELSE DIFFERENT_FIELDS_CONFIDENCE)
                 ELSE Check(FALSE, 0)
  IN IF guest_access.accessible /\ user_access.accessible
     THEN Check(TRUE, IF by_data.confidence >= GUEST_ACCESS_CONFIDENCE
                      THEN by_data.confidence ELSE GUEST_ACCESS_CONFIDENCE)
     ELSE by_data

EXPOSURE_FIELDS == {"password", "ssn", "credit_card", "email", "phone", "address"}
DATA_EXPOSURE_CONFIDENCE == 60

\* _check_data_exposure, lines 211-244; every explored value is truthy.
check_data_exposure(access_results) ==
  IF \E level \in DOMAIN access_results :
       DOMAIN access_results[level].data \cap EXPOSURE_FIELDS # {}
  THEN Check(TRUE, DATA_EXPOSURE_CONFIDENCE)
  ELSE Check(FALSE, 0)

GUEST_ABOVE_USER_CONFIDENCE == 80
UNIFORM_ACCESS_CONFIDENCE == 60

\* _check_authorization_bypass, lines 246-285: the uniform-access test comes
\* second and overwrites the confidence of the first.
check_authorization_bypass(access_results) ==
  LET status_codes == [level \in DOMAIN access_results |->
                         access_results[level].status_code]
      guest_status == IF "guest" \in DOMAIN status_codes THEN status_codes["guest"] ELSE 0
      user_status == IF "user" \in DOMAIN status_codes THEN status_codes["user"] ELSE 0
      first == IF guest_status = 200 /\ user_status # 200
               THEN Check(TRUE, GUEST_ABOVE_USER_CONFIDENCE) ELSE Check(FALSE, 0)
  IN IF Range(status_codes) = {200}
     THEN Check(TRUE, UNIFORM_ACCESS_CONFIDENCE)
     ELSE first

SIZE_ANOMALY_CONFIDENCE == 50
TIME_ANOMALY_CONFIDENCE == 40

\* _check_functionality_access, lines 287-340: max/min > 3.0 of the sizes,
\* max/min > 2.0 of the times.
check_functionality_access(access_results) ==
  LET sizes == {access_results[l].content_length : l \in DOMAIN access_results}
      times == {access_results[l].response_time : l \in DOMAIN access_results}
      several == Cardinality(DOMAIN access_results) > 1
      by_size == IF several /\ Least(sizes) > 0 /\ Max(sizes) > 3 * Least(sizes)
                 THEN Check(TRUE, SIZE_ANOMALY_CONFIDENCE) ELSE Check(FALSE, 0)
  IN IF several /\ Least(times) > 0 /\ Max(times) > 2 * Least(times)
     THEN Check(TRUE, IF by_size.confidence >= TIME_ANOMALY_CONFIDENCE
                      THEN by_size.confidence ELSE TIME_ANOMALY_CONFIDENCE)
     ELSE by_size

DATA_EXPOSURE_WEIGHT == 30
FUNCTIONALITY_ACCESS_WEIGHT == 20
BYPASS_AUTHORIZATION_WEIGHT == 10

\* A combination that adds the confidences without their weights.
CombineUnweighted(acc, check, name, weight, overrides) ==
  IF ~check.detected THEN acc
  ELSE [vulnerability_type |-> IF overrides \/ acc.vulnerability_type = ""
                               THEN name ELSE acc.vulnerability_type,
        confidence |-> IF overrides THEN check.confidence
                       ELSE IF acc.confidence >= check.confidence
                            THEN acc.confidence ELSE check.confidence,
        evidence |-> acc.evidence \cup {name},
        risk_score |-> acc.risk_score + check.confidence]

\* A combination in which every weight multiplies the confidence combined so
\* far instead of the check's own.
CombineWeighingCombined(acc, check, name, weight, overrides) ==
  IF ~check.detected THEN acc
  ELSE LET combined == IF overrides THEN check.confidence
                       ELSE IF acc.confidence >= check.confidence
                            THEN acc.confidence ELSE check.confidence
       IN [vulnerability_type |-> IF overrides \/ acc.vulnerability_type = ""
                                  THEN name ELSE acc.vulnerability_type,
           confidence |-> combined,
           evidence |-> acc.evidence \cup {name},
           risk_score |-> acc.risk_score + (weight * combined) \div 100]

\* One `if ...['detected']` block of lines 127-149 applied to the accumulated
\* (vulnerability_type, confidence, evidence, risk_score); vulnerability_type
\* is "" for None.
Combine(acc, check, name, weight, overrides) ==
  IF ~check.detected THEN acc
  ELSE [vulnerability_type |-> IF overrides \/ acc.vulnerability_type = ""
                               THEN name ELSE acc.vulnerability_type,
        confidence |-> IF overrides THEN check.confidence
                       ELSE IF acc.confidence >= check.confidence
                            THEN acc.confidence ELSE check.confidence,
        evidence |-> acc.evidence \cup {name},
        risk_score |-> acc.risk_score + (weight * check.confidence) \div 100]

\* _analyze_differential_patterns, lines 106-161: <<>> for None, else the
\* DifferentialResult in a one-element sequence.
analyze_differential_patterns(access_results) ==
  LET a0 == [vulnerability_type |-> "", confidence |-> 0, evidence |-> {},
             risk_score |-> 0]
      a1 == Combine(a0, check_privilege_escalation(access_results),
                    "privilege_escalation", PRIVILEGE_ESCALATION_WEIGHT, TRUE)
      a2 == Combine(a1, check_data_exposure(access_results),
                    "data_exposure", DATA_EXPOSURE_WEIGHT, FALSE)
      a3 == Combine(a2, check_authorization_bypass(access_results),
                    "auth_bypass", BYPASS_AUTHORIZATION_WEIGHT, FALSE)
      a4 == Combine(a3, check_functionality_access(access_results),
                    "functionality_access", FUNCTIONALITY_ACCESS_WEIGHT, FALSE)
  IN IF a4.vulnerability_type # "" /\ a4.confidence > 30
     THEN <<[a4 EXCEPT !.risk_score = Min2(@, 100)]>>
     ELSE <<>>

\* What one access level gets for the object.
UserView == ("id" :> "7") @@ ("title" :> "report")
AdminView == ("id" :> "7") @@ ("title" :> "report") @@ ("email" :> "a@b.c")

LevelOutcomes ==
  {FailedAccess,
   AccessResult(403, 1, 50, <<>>),
   AccessResult(200, 1, 100, UserView),
   AccessResult(200, 3, 400, AdminView)}

ACCESS_LEVELS == {"guest", "user", "admin"}

\* The access_results explored: any set of configured levels, any outcome
\* for each.
AccessResultsExplored ==
  UNION {[levels -> LevelOutcomes] : levels \in SUBSET ACCESS_LEVELS}

-----------------------------------------------------------------------------
(* Blind detector: BlindIDORDetector (blind_detector.py) *)

\* What the target does for one object under the blind techniques:
\*   failed            every request for the object raises
\*   body              the response body (its digest groups the objects)
\*   mutating_ok       POST, PUT or DELETE returns status 200
\*   header_influence  a spoofed header changes the response status
\*   time              mean response time of the three timed requests
BlindObservation(failed, body, mutating_ok, header_influence, time) ==
  [failed |-> failed, body |-> body, mutating_ok |-> mutating_ok,
   header_influence |-> header_influence, time |-> time]

TIMING_CAP == 80
ERROR_PATTERN_CAP == 70
RESPONSE_VARIANCE_CAP == 60
BEHAVIORAL_CAP == 50
SIDE_CHANNEL_CAP == 40

RECURSIVE SumOver(_, _)
SumOver(ids, f) ==
  IF ids = <<>> THEN 0 ELSE f[ids[1]] + SumOver(Tail(ids), f)

\* The ratio without the cap.
BlindConfidenceUncapped(anomalies, object_ids, cap) ==
  (Len(anomalies) * 100) \div Len(object_ids)

\* confidence = min(len(anomalies) / len(object_ids), cap), in hundredths.
BlindConfidence(anomalies, object_ids, cap) ==
  Min2((Len(anomalies) * 100) \div Len(object_ids), cap)

\* _timing_based_detection: ids whose z-score over the finite mean times is
\* above 2.0, that is (n*t - S)^2 * (n-1) > 4 * n * (n*Q - S^2) with S the sum
\* and Q the sum of squares of the n finite mean times; stdev is the sample
\* standard deviation.
timing_based_detection(object_ids, obs) ==
  LET ids == DistinctIds(object_ids)
      Valid(id) == ~obs[id].failed
      valid == SelectSeq(ids, Valid)
      n == Len(valid)
      T == [id \in Range(valid) |-> obs[id].time]
      TT == [id \in Range(valid) |-> obs[id].time * obs[id].time]
      S == SumOver(valid, T)
      Q == SumOver(valid, TT)
      Outlier(id) == /\ n * Q - S * S > 0
                     /\ (n * obs[id].time - S) * (n * obs[id].time - S) * (n - 1)
                          > 4 * n * (n * Q - S * S)
      anomalies == IF n > 2 THEN SelectSeq(valid, Outlier) ELSE <<>>
  IN IF anomalies # <<>>
     THEN << BlindTestResult("timing_based",
                             BlindConfidence(anomalies, object_ids, TIMING_CAP),
                             {"timing_anomalies", "mean_time", "std_dev"}, anomalies) >>
     ELSE <<>>

\* The keyword bucket _error_pattern_detection records for one object: a
\* failed request records 'exception'; a body holding "not found" matches the
\* bucket 'not_found'; the body "data" matches none ("").
ErrorBucket(observation) ==
  IF observation.failed THEN "exception"
  ELSE IF observation.body = "not found" THEN "not_found"
  ELSE ""

\* _analyze_error_patterns lines 375-387, over the buckets in the order they
\* were first seen: a bucket of exactly one id names it; a bucket of more than
\* 80% of the ids gives an anomaly with 'object_ids' and no 'object_id'.
RECURSIVE ErrorAnomalies(_, _, _)
ErrorAnomalies(buckets, ids, obs) ==
  IF buckets = <<>> THEN <<>>
  ELSE LET InBucket(id) == ErrorBucket(obs[id]) = buckets[1]
           obj_ids == SelectSeq(ids, InBucket)
           here == IF Len(obj_ids) = 1 THEN << obj_ids[1] >>
                   ELSE IF 10 * Len(obj_ids) > 8 * Len(ids) THEN << NoObjectId >>
                   ELSE <<>>
       IN here \o ErrorAnomalies(Tail(buckets), ids, obs)

\* _error_pattern_detection.
error_pattern_detection(object_ids, obs) ==
  LET ids == DistinctIds(object_ids)
      Matched(id) == ErrorBucket(obs[id]) # ""
      buckets == DistinctIds([i \in DOMAIN SelectSeq(ids, Matched) |->
                                ErrorBucket(obs[SelectSeq(ids, Matched)[i]])])
      anomalies == ErrorAnomalies(buckets, ids, obs)
  IN IF anomalies # <<>>
     THEN << BlindTestResult("error_pattern",
                             BlindConfidence(anomalies, object_ids, ERROR_PATTERN_CAP),
                             {"anomalies", "pattern_counts", "anomaly_score"}, anomalies) >>
     ELSE <<>>

\* _response_variance_detection with _analyze_response_variance: ids alone in
\* their digest group are named; one more anomaly without object id when the
\* ratio of such groups to len(responses) is above 0.5. Called only when
\* object_ids is not empty (the ratio divides by len(responses)).
response_variance_detection(object_ids, obs) ==
  LET ids == DistinctIds(object_ids)
      Unique(id) == /\ ~obs[id].failed
                    /\ \A j \in DOMAIN ids :
                         (ids[j] # id /\ ~obs[ids[j]].failed) => obs[ids[j]].body # obs[id].body
      unique == SelectSeq(ids, Unique)
      anomalies == IF 2 * Len(unique) > Len(ids)
                   THEN Append(unique, NoObjectId) ELSE unique
  IN IF anomalies # <<>>
     THEN << BlindTestResult("response_variance",
                             BlindConfidence(anomalies, object_ids, RESPONSE_VARIANCE_CAP),
                             {"anomalies", "hash_groups", "anomaly_score"}, anomalies) >>
     ELSE <<>>

\* _behavioral_analysis with _analyze_behavioral_patterns.
behavioral_analysis(object_ids, obs) ==
  LET ids == DistinctIds(object_ids)
      Unexpected(id) == ~obs[id].failed /\ obs[id].mutating_ok
      anomalies == SelectSeq(ids, Unexpected)
  IN IF anomalies # <<>>
     THEN << BlindTestResult("behavioral",
                             BlindConfidence(anomalies, object_ids, BEHAVIORAL_CAP),
                             {"anomalies", "anomaly_score"}, anomalies) >>
     ELSE <<>>

\* _side_channel_detection with _analyze_side_channel_patterns.
side_channel_detection(object_ids, obs) ==
  LET ids == DistinctIds(object_ids)
      Changing(id) == ~obs[id].failed /\ obs[id].header_influence
      anomalies == SelectSeq(ids, Changing)
  IN IF anomalies # <<>>
     THEN << BlindTestResult("side_channel",
                             BlindConfidence(anomalies, object_ids, SIDE_CHANNEL_CAP),
                             {"anomalies", "anomaly_score"}, anomalies) >>
     ELSE <<>>

\* detect_blind_idor: the five techniques in order. Defined for a non-empty
\* object_ids; with an empty one _analyze_response_variance divides by zero.
detect_blind_idor(object_ids, obs) ==
  timing_based_detection(object_ids, obs)
    \o error_pattern_detection(object_ids, obs)
    \o response_variance_detection(object_ids, obs)
    \o behavioral_analysis(object_ids, obs)
    \o side_channel_detection(object_ids, obs)

\* AdvancedIDORDetector._blind_detection lines 351-363: the key under which a
\* BlindTestResult is filed. No BlindTestResult has an 'evidence' key in its
\* evidence, so the key is len(results).
BlindResultKey(result, results) ==
  IF "evidence" \in result.evidence.keys /\ result.evidence.anomalies # <<>>
       /\ result.evidence.anomalies[1] # NoObjectId
  THEN result.evidence.anomalies[1]
  ELSE Cardinality(DOMAIN results)

\* Lines 350-368: group the blind results into the strategy's results dict.
RECURSIVE GroupBlindResults(_, _)
GroupBlindResults(blind_results, i) ==
  IF i = 0 THEN EmptyResults
  ELSE LET results == GroupBlindResults(blind_results, i - 1)
           result == blind_results[i]
           obj_id == BlindResultKey(result, results)
           old == IF obj_id \in DOMAIN results THEN results[obj_id].blind_detections
                  ELSE <<>>
       IN Put(results, obj_id,
              ObjData({"blind_detections"}, <<>>, NoHeuristics, NoDifferential,
                      Append(old, result)))

blind_detection(object_ids, factory_ok, obs) ==
  IF ~factory_ok \/ object_ids = <<>>
  THEN Returned(BLIND, TRUE, EmptyResults)
  ELSE LET blind_results == detect_blind_idor(object_ids, obs)
       IN Returned(BLIND, FALSE, GroupBlindResults(blind_results, Len(blind_results)))

-----------------------------------------------------------------------------
(* Fusion: AdvancedIDORDetector._combine_detection_results *)

\* _generate_recommendations. The type strings it looks for are compared with
\* the 'type' of the collected entries as they are: the keys
\* 'heuristic_anomaly', 'privilege_escalation', 'data_exposure' and the
\* capitalised pattern names. BlindWordTypes are the types of this model whose
\* lower-cased text contains 'slepoj' or 'blind'.
BlindWordTypes == {"slepoj", "blind_timing_based", "blind_error_pattern"}

GenericRecommendations == {"access logging", "security tests in CI/CD", "regular audits"}

generate_recommendations(vulnerabilities) ==
  LET vuln_types == {vulnerabilities[i].type : i \in DOMAIN vulnerabilities}
  IN (IF "Gorizontalnyj IDOR" \in vuln_types
      THEN {"validate ownership", "check user_id in endpoints"} ELSE {})
     \cup (IF "Vertikalnyj IDOR" \in vuln_types
           THEN {"role-based access control", "remove admin data"} ELSE {})
     \cup (IF "heuristic_anomaly" \in vuln_types
           THEN {"investigate response patterns", "standardise error messages"} ELSE {})
     \cup (IF "privilege_escalation" \in vuln_types
           THEN {"fix privilege escalation", "strict authorization checks"} ELSE {})
     \cup (IF "data_exposure" \in vuln_types
           THEN {"remove sensitive data", "filter data by role"} ELSE {})
     \cup (IF vuln_types \cap BlindWordTypes # {}
           THEN {"investigate blind IDOR", "consistent response handling"} ELSE {})
     \cup GenericRecommendations

\* The accumulators of one object: lines 384-388.
EmptyCollection ==
  [strategies_used |-> <<>>, vulnerabilities |-> <<>>,
   evidence |-> [k \in {} |-> ErrorData],
   confidence_scores |-> <<>>, risk_scores |-> <<>>]

\* Lines 402-408: pattern vulnerabilities are appended as they are; each has a
\* 'confidence' and none has a 'risk_score'.
ExtractVulnerabilities(acc, obj_data) ==
  IF "vulnerabilities" \in obj_data.keys
  THEN [acc EXCEPT
          !.vulnerabilities = @ \o obj_data.vulnerabilities,
          !.confidence_scores =
             @ \o [i \in DOMAIN obj_data.vulnerabilities |->
                     obj_data.vulnerabilities[i].confidence]]
  ELSE acc

\* Lines 411-419.
ExtractHeuristics(acc, obj_data) ==
  IF "heuristics" \in obj_data.keys
  THEN [acc EXCEPT
          !.vulnerabilities =
             IF obj_data.heuristics.is_suspicious
             THEN Append(@, Vulnerability(translate_vulnerability_type("heuristic_anomaly"),
                                          obj_data.heuristics.confidence, "heuristics", <<>>))
             ELSE @,
          !.confidence_scores = Append(@, obj_data.heuristics.confidence)]
  ELSE acc

\* Lines 422-430.
ExtractDifferential(acc, obj_data) ==
  IF "differential" \in obj_data.keys
  THEN [acc EXCEPT
          !.vulnerabilities =
             Append(@, Vulnerability(
                         translate_vulnerability_type(obj_data.differential.vulnerability_type),
                         obj_data.differential.confidence, "differential", <<>>)),
          !.confidence_scores = Append(@, obj_data.differential.confidence),
          !.risk_scores = Append(@, obj_data.differential.risk_score)]
  ELSE acc

BlindVulnerability(blind_result) ==
  Vulnerability(translate_vulnerability_type("blind_" \o blind_result.method),
                blind_result.confidence, "blind", blind_result.evidence.anomalies)

\* Lines 433-440.
ExtractBlindDetections(acc, obj_data) ==
  IF "blind_detections" \in obj_data.keys
  THEN [acc EXCEPT
          !.vulnerabilities =
             @ \o [i \in DOMAIN obj_data.blind_detections |->
                     BlindVulnerability(obj_data.blind_detections[i])],
          !.confidence_scores =
             @ \o [i \in DOMAIN obj_data.blind_detections |->
                     obj_data.blind_detections[i].confidence]]
  ELSE acc

\* Lines 443-459: the blind results filed under key 0 are handed to the
\* objects their anomalies name, when their evidence has both an 'evidence'
\* and an 'anomalies' key.
RECURSIVE RedistributeBlind(_, _, _, _)
RedistributeBlind(acc, blind_detections, obj_id, i) ==
  IF i > Len(blind_detections) THEN acc
  ELSE LET blind_result == blind_detections[i]
           hit == /\ "evidence" \in blind_result.evidence.keys
                  /\ "anomalies" \in blind_result.evidence.keys
                  /\ obj_id \in Range(blind_result.evidence.anomalies)
           next == IF hit
                   THEN [acc EXCEPT
                           !.vulnerabilities = Append(@, BlindVulnerability(blind_result)),
                           !.confidence_scores = Append(@, blind_result.confidence)]
                   ELSE acc
       IN RedistributeBlind(next, blind_detections, obj_id, i + 1)

ExtractBlindFromKeyZero(acc, strategy_name, strategy_data, obj_id) ==
  IF strategy_name = BLIND /\ 0 \in DOMAIN strategy_data
       /\ "blind_detections" \in strategy_data[0].keys
  THEN RedistributeBlind(acc, strategy_data[0].blind_detections, obj_id, 1)
  ELSE acc

\* A collection that passes over a bucket holding only an error record.
CollectStrategySkippingErrors(acc, strategy_result, obj_id) ==
  LET strategy_name == strategy_result.strategy
      strategy_data == strategy_result.results
  IN IF obj_id \in DOMAIN strategy_data /\ strategy_data[obj_id].keys # {"error"}
     THEN LET obj_data == strategy_data[obj_id]
              a0 == [acc EXCEPT !.strategies_used = Append(@, strategy_name)]
              a1 == ExtractVulnerabilities(a0, obj_data)
              a2 == ExtractHeuristics(a1, obj_data)
              a3 == ExtractDifferential(a2, obj_data)
              a4 == ExtractBlindDetections(a3, obj_data)
              a5 == ExtractBlindFromKeyZero(a4, strategy_name, strategy_data, obj_id)
          IN [a5 EXCEPT !.evidence = Put(@, strategy_name, obj_data)]
     ELSE acc

\* Lines 397-462: what one strategy's result adds for obj_id.
CollectStrategy(acc, strategy_result, obj_id) ==
  LET strategy_name == strategy_result.strategy
      strategy_data == strategy_result.results
  IN IF obj_id \in DOMAIN strategy_data
     THEN LET obj_data == strategy_data[obj_id]
              a0 == [acc EXCEPT !.strategies_used = Append(@, strategy_name)]
              a1 == ExtractVulnerabilities(a0, obj_data)
              a2 == ExtractHeuristics(a1, obj_data)
              a3 == ExtractDifferential(a2, obj_data)
              a4 == ExtractBlindDetections(a3, obj_data)
              a5 == ExtractBlindFromKeyZero(a4, strategy_name, strategy_data, obj_id)
          IN [a5 EXCEPT !.evidence = Put(@, strategy_name, obj_data)]
     ELSE acc

\* Lines 391-392: `continue` on a result that is an exception.
AfterExceptionBreak(strategy_results, i) == Len(strategy_results) + 1

AfterException(strategy_results, i) == i + 1

\* Lines 390-462: the loop over strategy_results for one object.
RECURSIVE CollectObject(_, _, _, _)
CollectObject(strategy_results, obj_id, i, acc) ==
  IF i > Len(strategy_results) THEN acc
  ELSE IF strategy_results[i].status = "raised"
  THEN CollectObject(strategy_results, obj_id, AfterException(strategy_results, i), acc)
  ELSE CollectObject(strategy_results, obj_id, i + 1,
                     CollectStrategy(acc, strategy_results[i], obj_id))

Collected(strategy_results, obj_id) ==
  CollectObject(strategy_results, obj_id, 1, EmptyCollection)

RECURSIVE SeqSum(_)
SeqSum(s) == IF s = <<>> THEN 0 ELSE s[1] + SeqSum(Tail(s))

\* Line 465.
OverallConfidenceAverage(confidence_scores) ==
  IF confidence_scores # <<>>
  THEN SeqSum(confidence_scores) \div Len(confidence_scores) ELSE 0

OverallConfidence(confidence_scores) ==
  IF confidence_scores # <<>> THEN SeqMax(confidence_scores) ELSE 0

\* Line 466.
RiskScoreIgnoringRisks(risk_scores, overall_confidence) == overall_confidence

RiskScore(risk_scores, overall_confidence) ==
  IF risk_scores # <<>> THEN SeqMax(risk_scores) ELSE overall_confidence

\* Line 474.
CreatesResultWithoutFindings(vulnerabilities, overall_confidence, confidence_threshold) ==
  overall_confidence >= confidence_threshold

CreatesResultStrictly(vulnerabilities, overall_confidence, confidence_threshold) ==
  vulnerabilities # <<>> /\ overall_confidence > confidence_threshold

CreatesResult(vulnerabilities, overall_confidence, confidence_threshold) ==
  vulnerabilities # <<>> /\ overall_confidence >= confidence_threshold

\* Lines 476-484.
AdvancedDetectionResult(obj_id, acc) ==
  LET overall_confidence == OverallConfidence(acc.confidence_scores)
  IN [object_id |-> obj_id,
      strategies_used |-> acc.strategies_used,
      vulnerabilities |-> acc.vulnerabilities,
      overall_confidence |-> overall_confidence,
      risk_score |-> RiskScore(acc.risk_scores, overall_confidence),
      evidence |-> acc.evidence,
      recommendations |-> generate_recommendations(acc.vulnerabilities)]

\* Line 476: combined_results.append(...).
PrependResult(combined_results, result) == <<result>> \o combined_results

AppendResult(combined_results, result) == Append(combined_results, result)

\* Lines 382-488: the loop over object_ids.
RECURSIVE combine_detection_results(_, _, _, _)
combine_detection_results(strategy_results, object_ids, confidence_threshold, i) ==
  IF i = 0 THEN <<>>
  ELSE LET combined_results ==
             combine_detection_results(strategy_results, object_ids,
                                       confidence_threshold, i - 1)
           obj_id == object_ids[i]
           acc == Collected(strategy_results, obj_id)
       IN IF CreatesResult(acc.vulnerabilities, OverallConfidence(acc.confidence_scores),
                           confidence_threshold)
          THEN AppendResult(combined_results, AdvancedDetectionResult(obj_id, acc))
          ELSE combined_results

-----------------------------------------------------------------------------
(* The detector: AdvancedIDORDetector *)

VARIABLES
  config,             \* self.config
  phase,              \* "Idle", "Running" (inside comprehensive_scan), "Finished", "Aborted"
  object_ids,         \* the object_ids argument of the scan
  access_contexts,    \* the access levels of the access_contexts argument
  target,             \* what the target API does for each requested id during the scan
  tasks,              \* the strategies whose coroutine was handed to gather, in order
  strategy_results,   \* per task: pending, the returned dictionary, or the exception
  detection_results   \* self.detection_results

\* The HeuristicAnalyzer of the detector and the position of the
\* _heuristic_detection coroutine that drives it.
VARIABLES
  baseline_metrics,   \* heuristic_analyzer.baseline_metrics: <<>> for None, else <<metrics>>
  response_history,   \* heuristic_analyzer.response_history; every entry also records
                      \* the scan and the method that appended it
  last_call,          \* the last call of the analyzer: method, argument and returned value
  scan_no,            \* how many times _heuristic_detection has been entered
  h_pc,               \* "idle", "baseline" (loop of lines 282-293), "analysis" (loop of
                      \* lines 299-314), "returned", "raised"
  h_object_ids,       \* the object_ids argument of the coroutine
  h_index,            \* the position of the running loop in h_object_ids
  h_results           \* the local dictionary `results`

scan_vars == <<config, phase, object_ids, access_contexts, target, tasks,
               strategy_results, detection_results>>

heuristic_vars == <<baseline_metrics, response_history, last_call, scan_no,
                    h_pc, h_object_ids, h_index, h_results>>

\* The PatternMatcher of the detector and the calls of its analyze method.
VARIABLES
  pm_attributes,      \* pattern.confidence of every pattern of pattern_matcher.patterns,
                      \* by pattern.idor_type.value
  pm_call,            \* the last call of analyze: its number, how many calls so far
                      \* were on a triple other than the first call's, the arguments
                      \* as passed and as they are after the call, the list returned
  pm_first            \* the first call of analyze, likewise

pattern_vars == <<pm_attributes, pm_call, pm_first>>

\* The calls of DifferentialAnalyzer._analyze_differential_patterns.
VARIABLES
  df_call             \* the last call: its number, the access_results passed and the
                      \* value returned

differential_vars == <<df_call>>

\* The BlindIDORDetector of the detector and the passes of detect_blind_idor.
VARIABLES
  bd_call             \* the last pass: whether one ran, the object_ids passed, what
                      \* the target did for each id, and self.test_results

blind_vars == <<bd_call>>

\* The strategy tasks that asyncio.gather runs next to _heuristic_detection.
VARIABLES
  requests_made       \* for each of them, how many of its requests have been
                      \* answered and processed

concurrent_vars == <<requests_made>>

component_vars == <<heuristic_vars, pattern_vars, differential_vars, blind_vars,
                    concurrent_vars>>

vars == <<scan_vars, component_vars>>

NoCall == [op |-> "none", metrics |-> EmptyMetrics, result |-> NoBaselineOutcome]

\* HeuristicAnalyzer.__init__, lines 34-36; no scan has run.
HeuristicAnalyzerFresh ==
  /\ baseline_metrics = <<>>
  /\ response_history = <<>>
  /\ last_call = NoCall
  /\ scan_no = 0
  /\ h_pc = "idle"
  /\ h_object_ids = <<>>
  /\ h_index = 0
  /\ h_results = <<>>

NoPatternCall ==
  [n |-> 0, others |-> 0, arguments |-> PatternTriple(<<>>, <<>>, <<>>),
   arguments_after |-> PatternTriple(<<>>, <<>>, <<>>), findings |-> <<>>]

\* PatternMatcher.__init__, lines 231-237, and IDORPattern.__init__, line 24.
PatternMatcherFresh ==
  /\ pm_attributes = [t \in {IDOR_HORIZONTAL, IDOR_VERTICAL, IDOR_CONTEXT_DEPENDENT,
                               IDOR_BLIND} |-> 0]
  /\ pm_call = NoPatternCall
  /\ pm_first = NoPatternCall

NoDifferentialCall == [n |-> 0, access_results |-> <<>>, result |-> <<>>]

\* DifferentialAnalyzer.__init__, lines 43-54: nothing analysed yet.
DifferentialAnalyzerFresh == df_call = NoDifferentialCall

NoBlindCall ==
  [called |-> FALSE, object_ids |-> <<>>, observations |-> <<>>, test_results |-> <<>>]

\* BlindIDORDetector.__init__, lines 35-37: test_results is empty.
BlindDetectorFresh == bd_call = NoBlindCall

\* No task has been launched.
NoRequestsMade == requests_made = [s \in Strategies \ {HEURISTIC} |-> 0]

ComponentsFresh ==
  /\ HeuristicAnalyzerFresh
  /\ PatternMatcherFresh
  /\ DifferentialAnalyzerFresh
  /\ BlindDetectorFresh
  /\ NoRequestsMade

DEFAULT_CONFIDENCE_THRESHOLD == 50

\* The thresholds explored: 0.0, 0.3, 0.5, 1.0.
ConfidenceThresholds == {0, 30, DEFAULT_CONFIDENCE_THRESHOLD, 100}

Configs ==
  [enable_pattern_matching : BOOLEAN, enable_heuristic_analysis : BOOLEAN,
   enable_differential_analysis : BOOLEAN, enable_blind_detection : BOOLEAN,
   confidence_threshold : ConfidenceThresholds]

\* The access_contexts arguments explored: none, or guest, user and admin.
AccessContextChoices == {{}, {"guest", "user", "admin"}}

ObjectIdSequences == SeqsUpTo(ObjectIdValues, MaxLen)

\* What session.get does for the endpoint of one object with the scan's token:
\*   "unreachable"  the request raises
\*   "denied"       a response whose status is not 200
\*   "ok"           a response with status 200
TargetStates == {"unreachable", "denied", "ok"}

\* __init__, lines 72-95.
Init ==
  /\ config = [enable_pattern_matching |-> TRUE, enable_heuristic_analysis |-> TRUE,
               enable_differential_analysis |-> TRUE, enable_blind_detection |-> TRUE,
               confidence_threshold |-> DEFAULT_CONFIDENCE_THRESHOLD]
  /\ phase = "Idle"
  /\ object_ids = <<>>
  /\ access_contexts = {}
  /\ target = <<>>
  /\ tasks = <<>>
  /\ strategy_results = <<>>
  /\ detection_results = <<>>
  /\ ComponentsFresh

\* configure, lines 97-99, called before the first scan.
Configure ==
  /\ phase = "Idle"
  /\ \E c \in Configs : config' = c
  /\ UNCHANGED <<phase, object_ids, access_contexts, target, tasks,
                 strategy_results, detection_results>>
  /\ UNCHANGED component_vars

\* Lines 125: the differential strategy needs its flag and access contexts.
DifferentialLaunchedByFlagOnly(cfg, contexts) == cfg.enable_differential_analysis

DifferentialLaunched(cfg, contexts) ==
  cfg.enable_differential_analysis /\ contexts # {}

\* Lines 115-131: the coroutines appended to tasks.
LaunchedTasks(cfg, contexts) ==
  (IF cfg.enable_pattern_matching THEN <<PATTERN_BASED>> ELSE <<>>)
  \o (IF cfg.enable_heuristic_analysis THEN <<HEURISTIC>> ELSE <<>>)
  \o (IF DifferentialLaunched(cfg, contexts) THEN <<DIFFERENTIAL>> ELSE <<>>)
  \o (IF cfg.enable_blind_detection THEN <<BLIND>> ELSE <<>>)

\* comprehensive_scan up to the await of gather, lines 106-134: the first scan
\* of a detector.
StartScan ==
  /\ phase = "Idle"
  /\ \E ids \in ObjectIdSequences, contexts \in AccessContextChoices :
       /\ object_ids' = ids
       /\ access_contexts' = contexts
       /\ target' \in [Range(ids) -> TargetStates]
       /\ tasks' = LaunchedTasks(config, contexts)
       /\ strategy_results' = [i \in DOMAIN LaunchedTasks(config, contexts) |->
                                 Pending(LaunchedTasks(config, contexts)[i])]
  /\ detection_results' = <<>>
  /\ phase' = "Running"
  /\ UNCHANGED config
  /\ UNCHANGED component_vars

\* The responses the pattern strategy gets: status 200 from an "ok" object,
\* whose body PatternMatcher.analyze then judges.
PatternResponsesOf(tgt, analysis) ==
  [id \in DOMAIN tgt |->
     CASE tgt[id] = "unreachable" -> "exc"
       [] tgt[id] = "denied" -> "non200"
       [] OTHER -> analysis[id]]

\* The responses the heuristic strategy gets: every response that arrives is
\* analysed, whatever its status.
HeuristicResponsesOf(tgt, analysis) ==
  [id \in DOMAIN tgt |-> IF tgt[id] = "unreachable" THEN "exc" ELSE analysis[id]]

\* What the blind techniques observe: "ok" objects share one body, "denied"
\* objects share another; response times are uniform and no header matters.
BlindObservationsOf(tgt, mutating_ok) ==
  [id \in DOMAIN tgt |->
     CASE tgt[id] = "unreachable" -> BlindObservation(TRUE, "", FALSE, FALSE, 0)
       [] tgt[id] = "denied" -> BlindObservation(FALSE, "not found", mutating_ok[id], FALSE, 1)
       [] OTHER -> BlindObservation(FALSE, "data", mutating_ok[id], FALSE, 1)]

\* A task that may run again after it raised.
IsPendingOrRaised(i, strategy) ==
  /\ phase = "Running"
  /\ i \in DOMAIN tasks
  /\ tasks[i] = strategy
  /\ strategy_results[i].status \in {"pending", "raised"}

\* Task i is the coroutine of `strategy`, created at lines 115-131 and not
\* yet finished; gather runs each coroutine once.
IsPending(i, strategy) ==
  /\ phase = "Running"
  /\ i \in DOMAIN tasks
  /\ tasks[i] = strategy
  /\ strategy_results[i].status = "pending"

Settle(i, result) ==
  /\ strategy_results' = [strategy_results EXCEPT ![i] = result]
  /\ UNCHANGED <<config, phase, object_ids, access_contexts, target, tasks,
                 detection_results>>
  /\ UNCHANGED component_vars

\* The task of _pattern_based_detection runs to its end.
PatternTask ==
  \E i \in DOMAIN tasks :
    /\ IsPending(i, PATTERN_BASED)
    /\ \E factory_ok \in BOOLEAN, analysis \in [Range(object_ids) -> {"clean", "vuln"}] :
         Settle(i, pattern_based_detection(object_ids, factory_ok,
                                           PatternResponsesOf(target, analysis)))

\* The task of _heuristic_detection runs to its end.
HeuristicTask ==
  \E i \in DOMAIN tasks :
    /\ IsPending(i, HEURISTIC)
    /\ \E factory_ok \in BOOLEAN, analysis \in [Range(object_ids) -> {"clean", "susp"}] :
         Settle(i, heuristic_detection(object_ids, factory_ok,
                                       HeuristicResponsesOf(target, analysis)))

\* The task of _differential_detection runs to its end.
DifferentialTask ==
  \E i \in DOMAIN tasks :
    /\ IsPending(i, DIFFERENTIAL)
    /\ \E analyzer_ok \in BOOLEAN, outcomes \in [Range(object_ids) -> DifferentialOutcomes] :
         Settle(i, differential_detection(object_ids, analyzer_ok, outcomes))

\* The task of _blind_detection runs to its end.
BlindTask ==
  \E i \in DOMAIN tasks :
    /\ IsPending(i, BLIND)
    /\ \E factory_ok \in BOOLEAN, mutating_ok \in [Range(object_ids) -> BOOLEAN] :
         Settle(i, blind_detection(object_ids, factory_ok,
                                   BlindObservationsOf(target, mutating_ok)))

\* Line 134: gather(*tasks, return_exceptions=True).
return_exceptions_default == FALSE

return_exceptions == TRUE

\* gather re-raises the first exception of a task unless return_exceptions.
GatherRaises(results) ==
  ~return_exceptions /\ \E i \in DOMAIN results : results[i].status = "raised"

\* comprehensive_scan from the return of gather to its own return, lines 134-141.
GatherAndCombine ==
  /\ phase = "Running"
  /\ \A i \in DOMAIN strategy_results : strategy_results[i].status # "pending"
  /\ IF GatherRaises(strategy_results)
     THEN /\ phase' = "Aborted"
          /\ UNCHANGED detection_results
     ELSE /\ phase' = "Finished"
          /\ detection_results' =
               combine_detection_results(strategy_results, object_ids,
                                         config.confidence_threshold, Len(object_ids))
  /\ UNCHANGED <<config, object_ids, access_contexts, target, tasks, strategy_results>>
  /\ UNCHANGED component_vars

Next ==
  \/ Configure
  \/ StartScan
  \/ PatternTask
  \/ HeuristicTask
  \/ DifferentialTask
  \/ BlindTask
  \/ GatherAndCombine

Spec == Init /\ [][Next]_vars

TypeOK ==
  /\ config \in Configs
  /\ phase \in {"Idle", "Running", "Finished", "Aborted"}
  /\ object_ids \in ObjectIdSequences
  /\ access_contexts \in AccessContextChoices
  /\ DOMAIN target = Range(object_ids)
  /\ Len(strategy_results) = Len(tasks)

-----------------------------------------------------------------------------
(* Properties of a finished scan *)

ScanFinished == phase = "Finished"

ResultIds == {detection_results[i].object_id : i \in DOMAIN detection_results}

\* The strategy results that are dictionaries, in task order.
IsReturned(strategy_result) == strategy_result.status = "returned"

ReturnedResults == SelectSeq(strategy_results, IsReturned)

\* The confidences of the findings one per-object bucket holds.
BucketConfidences(obj_data) ==
  {obj_data.vulnerabilities[i].confidence : i \in DOMAIN obj_data.vulnerabilities}
  \cup (IF "heuristics" \in obj_data.keys /\ obj_data.heuristics.is_suspicious
        THEN {obj_data.heuristics.confidence} ELSE {})
  \cup (IF "differential" \in obj_data.keys
        THEN {obj_data.differential.confidence} ELSE {})
  \cup {obj_data.blind_detections[i].confidence : i \in DOMAIN obj_data.blind_detections}

\* The confidences of the findings filed for obj_id by the strategies whose
\* task returned.
FindingConfidences(obj_id) ==
  UNION {BucketConfidences(ReturnedResults[i].results[obj_id]) :
           i \in {j \in DOMAIN ReturnedResults :
                    obj_id \in DOMAIN ReturnedResults[j].results}}

OverallConfidenceOf(obj_id) ==
  IF FindingConfidences(obj_id) = {} THEN 0 ELSE Max(FindingConfidences(obj_id))

\* C1: after a scan, a requested object has a fused result if and only if at
\* least one finding was collected for it and the largest confidence among
\* them is at least the configured confidence_threshold; an object without
\* any finding has no fused result.
FusedResultIffFindingAboveThreshold ==
  ScanFinished =>
    \A X \in Range(object_ids) :
      (X \in ResultIds) <=>
        /\ FindingConfidences(X) # {}
        /\ Max(FindingConfidences(X)) >= config.confidence_threshold

\* A finished scan where one object has a fused result and another has
\* findings, all below the threshold, and no fused result.
FusedAndBelowThresholdObjects ==
  /\ ScanFinished
  /\ \E X, Y \in Range(object_ids) :
       /\ X \in ResultIds
       /\ Y \notin ResultIds
       /\ FindingConfidences(Y) # {}

FindingConfidencesOf(result) ==
  {result.vulnerabilities[k].confidence : k \in DOMAIN result.vulnerabilities}

\* C2: the overall_confidence of every fused result is the maximum of the
\* confidences of the findings in its vulnerabilities list, and is at most 1.0.
OverallConfidenceIsMaxOfFindings ==
  ScanFinished =>
    \A i \in DOMAIN detection_results :
      /\ detection_results[i].overall_confidence
           = Max(FindingConfidencesOf(detection_results[i]))
      /\ detection_results[i].overall_confidence <= 100

\* A fused result whose findings come with different confidences.
ResultWithUnequalConfidences ==
  /\ ScanFinished
  /\ \E i \in DOMAIN detection_results :
       Cardinality(FindingConfidencesOf(detection_results[i])) >= 2

\* The risk scores carried by the findings of a fused result: the
\* DifferentialResult kept in its evidence carries one, no other finding does.
CarriedRiskScores(result) ==
  {result.evidence[s].differential.risk_score :
     s \in {t \in DOMAIN result.evidence : "differential" \in result.evidence[t].keys}}

\* C3: the risk_score of every fused result is the maximum risk score carried
\* by its findings, and its overall_confidence when no finding carries one.
RiskScoreIsMaxCarriedRisk ==
  ScanFinished =>
    \A i \in DOMAIN detection_results :
      detection_results[i].risk_score
        = IF CarriedRiskScores(detection_results[i]) # {}
          THEN Max(CarriedRiskScores(detection_results[i]))
          ELSE detection_results[i].overall_confidence

\* Two fused results: one with a differential finding, whose risk score is not
\* its overall confidence, and one without any carried risk score.
ResultsWithAndWithoutCarriedRisk ==
  /\ ScanFinished
  /\ \E i, j \in DOMAIN detection_results :
       /\ CarriedRiskScores(detection_results[i]) # {}
       /\ detection_results[i].risk_score # detection_results[i].overall_confidence
       /\ CarriedRiskScores(detection_results[j]) = {}

\* C4 (as amended): for confidence_threshold in {0.0, 0.3, 0.5, 1.0} a fused
\* result appears for object X iff X has at least one finding and
\* overall_confidence(X) >= confidence_threshold; with 0.0 every requested
\* object that has a finding is included, and with 1.0 an object is excluded
\* unless one of its findings has confidence exactly 1.0.
ThresholdBoundariesWithFindings ==
  (ScanFinished /\ config.confidence_threshold \in ConfidenceThresholds) =>
    \A X \in Range(object_ids) :
      /\ (X \in ResultIds) <=>
           (FindingConfidences(X) # {}
              /\ OverallConfidenceOf(X) >= config.confidence_threshold)
      /\ (config.confidence_threshold = 0) =>
           ((X \in ResultIds) <=> (FindingConfidences(X) # {}))
      /\ (config.confidence_threshold = 100) =>
           ((X \in ResultIds) => (100 \in FindingConfidences(X)))

\* C4 (as stated): a fused result appears for X iff overall_confidence(X) >=
\* confidence_threshold, so that threshold 0.0 includes every requested object.
ThresholdBoundaries ==
  (ScanFinished /\ config.confidence_threshold \in ConfidenceThresholds) =>
    \A X \in Range(object_ids) :
      /\ (X \in ResultIds) <=> (OverallConfidenceOf(X) >= config.confidence_threshold)
      /\ (config.confidence_threshold = 0) => (X \in ResultIds)
      /\ (config.confidence_threshold = 100) =>
           ((X \in ResultIds) => (100 \in FindingConfidences(X)))

\* A scan finished with threshold 0.0 where one object has a fused result and
\* another requested object has no finding.
ZeroThresholdWithFindinglessObject ==
  /\ ScanFinished
  /\ config.confidence_threshold = 0
  /\ \E X, Y \in Range(object_ids) :
       /\ X \in ResultIds
       /\ FindingConfidences(Y) = {}

RaisedTasks == {i \in DOMAIN strategy_results : strategy_results[i].status = "raised"}

\* The evidence.kind of the findings fusion builds from a strategy's buckets.
FindingKind(strategy) ==
  CASE strategy = PATTERN_BASED -> "pattern"
    [] strategy = HEURISTIC -> "heuristics"
    [] strategy = DIFFERENTIAL -> "differential"
    [] strategy = BLIND -> "blind"

\* The fused result carries nothing of the strategy: not its name, not its
\* evidence, none of its findings.
CarriesNothingOf(result, strategy) ==
  /\ strategy \notin Range(result.strategies_used)
  /\ strategy \notin DOMAIN result.evidence
  /\ \A k \in DOMAIN result.vulnerabilities :
       result.vulnerabilities[k].evidence.kind # FindingKind(strategy)

\* C5: when the coroutine of an enabled strategy raises, the scan is not
\* aborted, the failed strategy contributes nothing to any fused result, and
\* the fused result list is the one the remaining strategy results alone give,
\* as if the failed strategy had not been launched.
PartialFailureKeepsOtherFindings ==
  /\ RaisedTasks # {} => phase # "Aborted"
  /\ (ScanFinished /\ RaisedTasks # {}) =>
       /\ detection_results
            = combine_detection_results(ReturnedResults, object_ids,
                                        config.confidence_threshold, Len(object_ids))
       /\ \A i \in DOMAIN detection_results, t \in RaisedTasks :
            CarriesNothingOf(detection_results[i], tasks[t])

\* A finished scan whose first task raised and whose fused results hold the
\* findings of a later strategy.
RaisedTaskBeforeContributingTask ==
  /\ ScanFinished
  /\ 1 \in RaisedTasks
  /\ detection_results # <<>>

Count(seq, x) == Cardinality({i \in DOMAIN seq : seq[i] = x})

\* The BlindTestResults the blind strategy returned, whatever key they are
\* filed under.
BlindDetectionsOf(obj_data) ==
  {obj_data.blind_detections[n] : n \in DOMAIN obj_data.blind_detections}

BlindResultsProduced ==
  UNION {UNION {BlindDetectionsOf(ReturnedResults[i].results[k]) :
                  k \in DOMAIN ReturnedResults[i].results} :
           i \in DOMAIN ReturnedResults}

\* C6: every finding produced for object X by a strategy whose task completed
\* (each pattern vulnerability, the heuristic anomaly, the differential result,
\* each blind finding whose anomalies name X) appears exactly once among the
\* findings collected for X.
EveryFindingCollectedExactlyOnce ==
  ScanFinished =>
    \A X \in Range(object_ids) :
      LET collected == Collected(strategy_results, X).vulnerabilities
      IN /\ \A i \in DOMAIN ReturnedResults :
              X \in DOMAIN ReturnedResults[i].results =>
                LET obj_data == ReturnedResults[i].results[X]
                IN /\ \A n \in DOMAIN obj_data.vulnerabilities :
                        Count(collected, obj_data.vulnerabilities[n]) = 1
                   /\ ("heuristics" \in obj_data.keys /\ obj_data.heuristics.is_suspicious) =>
                        Count(collected,
                              Vulnerability(translate_vulnerability_type("heuristic_anomaly"),
                                            obj_data.heuristics.confidence,
                                            "heuristics", <<>>)) = 1
                   /\ "differential" \in obj_data.keys =>
                        Cardinality({k \in DOMAIN collected :
                                       collected[k].evidence.kind = "differential"}) = 1
         /\ \A b \in BlindResultsProduced :
              X \in Range(b.evidence.anomalies) =>
                Count(collected, BlindVulnerability(b)) = 1

\* C7: a blind finding is attached to object X only if X is one of the ids the
\* technique flagged in that finding's evidence (an anomaly entry that names a
\* group instead of one id is taken to flag every id).
BlindFindingOnlyOnFlaggedObject ==
  ScanFinished =>
    \A i \in DOMAIN detection_results :
      \A k \in DOMAIN detection_results[i].vulnerabilities :
        LET finding == detection_results[i].vulnerabilities[k]
        IN finding.evidence.kind = "blind" =>
             \/ detection_results[i].object_id \in Range(finding.evidence.anomalies)
             \/ NoObjectId \in Range(finding.evidence.anomalies)

HasResult(obj_id) == obj_id \in ResultIds

\* C8: the fused results are ordered like the caller-supplied object_ids: the
\* object ids of the result list are the requested ids that have a fused
\* result, in the order of object_ids, whatever the order in which the
\* strategy tasks settled.
ResultsFollowRequestOrder ==
  ScanFinished =>
    [i \in DOMAIN detection_results |-> detection_results[i].object_id]
      = SelectSeq(object_ids, HasResult)

\* A finished scan with fused results for two different objects.
TwoObjectsWithResults ==
  /\ ScanFinished
  /\ \E i, j \in DOMAIN detection_results :
       detection_results[i].object_id # detection_results[j].object_id

\* The strategies comprehensive_scan has to launch for the current
\* configuration and access_contexts argument.
EnabledStrategies ==
  {s \in Strategies :
     CASE s = PATTERN_BASED -> config.enable_pattern_matching
       [] s = HEURISTIC -> config.enable_heuristic_analysis
       [] s = DIFFERENTIAL -> config.enable_differential_analysis /\ access_contexts # {}
       [] s = BLIND -> config.enable_blind_detection}

\* C9: a strategy is launched in a scan iff its enable flag is set, the
\* differential one only with a non-empty access_contexts as well; no fused
\* result lists, or carries evidence or findings of, a strategy that was not.
OnlyEnabledStrategiesContribute ==
  phase # "Idle" =>
    /\ Range(tasks) = EnabledStrategies
    /\ \A i \in DOMAIN detection_results, s \in Strategies \ EnabledStrategies :
         CarriesNothingOf(detection_results[i], s)

\* A finished scan with the differential flag set and no access contexts,
\* another strategy disabled by its flag, and a fused result.
ResultsWithStrategiesLeftOut ==
  /\ ScanFinished
  /\ config.enable_differential_analysis
  /\ access_contexts = {}
  /\ ~config.enable_heuristic_analysis
  /\ detection_results # <<>>

\* The task failed: its coroutine raised, or it returned an error dictionary,
\* or its result holds nothing but per-object errors.
TaskFailed(strategy_result) ==
  \/ strategy_result.status = "raised"
  \/ /\ strategy_result.status = "returned"
     /\ \/ strategy_result.error
        \/ /\ DOMAIN strategy_result.results # {}
           /\ \A k \in DOMAIN strategy_result.results :
                strategy_result.results[k].keys = {"error"}

PendingTasks ==
  {i \in DOMAIN strategy_results : strategy_results[i].status = "pending"}

\* A step of the scan in progress: a task settles, or gather hands every result
\* to fusion and comprehensive_scan returns.
ScanStep ==
  PatternTask \/ HeuristicTask \/ DifferentialTask \/ BlindTask \/ GatherAndCombine

\* C10: no error is fatal to the scan: whatever the id sequence and whatever
\* fails, comprehensive_scan never propagates an exception, a scan in progress
\* can always take a step, and every step either settles one more task or
\* returns the list of fused results; the tasks being finitely many, the scan
\* terminates by returning.
ScanAlwaysReturns ==
  /\ [](phase # "Aborted")
  /\ [](phase = "Running" => ENABLED ScanStep)
  /\ [][phase = "Running" =>
          \/ /\ phase' = "Running"
             /\ PendingTasks' \subseteq PendingTasks
             /\ PendingTasks' # PendingTasks
          \/ /\ phase' = "Finished"
             /\ PendingTasks = {}]_vars

\* A scan of a non-empty id sequence in which all four tasks failed, finished
\* with an empty list.
EveryTaskFailedAndScanReturned ==
  /\ ScanFinished
  /\ object_ids # <<>>
  /\ Len(tasks) = 4
  /\ \A i \in DOMAIN strategy_results : TaskFailed(strategy_results[i])
  /\ detection_results = <<>>

-----------------------------------------------------------------------------
(* Per-object failures inside the pattern and heuristic strategies *)

\* The requested ids whose every request raises.
UnreachableIds == {id \in Range(object_ids) : target[id] = "unreachable"}

\* The settled tasks of the two strategies that request each object in a
\* loop of their own and whose session was opened.
PerObjectLoopTasks ==
  {i \in DOMAIN strategy_results :
     /\ strategy_results[i].strategy \in {PATTERN_BASED, HEURISTIC}
     /\ strategy_results[i].status # "pending"
     /\ strategy_results[i].exception # "SessionError"}

\* The baseline loop of the task's strategy found a baseline.
BaselineAvailable(strategy) ==
  IF strategy = PATTERN_BASED
  THEN \E id \in Range(object_ids) : target[id] = "ok"
  ELSE \E id \in Range(object_ids) : target[id] # "unreachable"

\* C11: a transport failure on one object's request inside the per-object
\* loop of the pattern or heuristic strategy does not abort the strategy: the
\* task returns its dictionary, and every object whose request failed has an
\* 'error' entry in it, wherever the failing object sits in object_ids.
TransportFailureIsRecordedPerObject ==
  \A i \in PerObjectLoopTasks :
    BaselineAvailable(strategy_results[i].strategy) =>
      /\ strategy_results[i].status = "returned"
      /\ \A id \in UnreachableIds :
           /\ id \in DOMAIN strategy_results[i].results
           /\ "error" \in strategy_results[i].results[id].keys

\* C12: when a strategy cannot establish its baseline (pattern: no requested
\* object answers with status 200; heuristic: every baseline request raises),
\* its task returns an empty per-object result set, nothing having been
\* analysed, and does not fail; the scan is not aborted by it.
BaselineUnavailableGivesEmptyResultSet ==
  \A i \in PerObjectLoopTasks :
    ~BaselineAvailable(strategy_results[i].strategy) =>
      /\ strategy_results[i].status = "returned"
      /\ ~strategy_results[i].error
      /\ DOMAIN strategy_results[i].results = {}
      /\ phase # "Aborted"

\* A finished scan of two unreachable objects in which the pattern and the
\* heuristic strategy both returned for want of a baseline while another
\* strategy still produced a fused result.
NoBaselineYetOtherStrategyReported ==
  /\ ScanFinished
  /\ Len(object_ids) = 2
  /\ UnreachableIds = Range(object_ids)
  /\ \E i \in PerObjectLoopTasks : strategy_results[i].strategy = PATTERN_BASED
  /\ \E i \in PerObjectLoopTasks : strategy_results[i].strategy = HEURISTIC
  /\ detection_results # <<>>

-----------------------------------------------------------------------------
(* Lifecycle of a scan *)

\* C13: a scan goes Idle -> Running -> Finished and never back; StartScan
\* launches each enabled strategy exactly once, all pending; while the scan
\* runs the task list is fixed and a settled task, failed or not, is never
\* run again; fusion runs once, at the step that finishes the scan, and only
\* when every launched task has settled.
ScanLifecycleWithoutRetry ==
  [][/\ phase' # phase =>
          <<phase, phase'>> \in {<<"Idle", "Running">>, <<"Running", "Finished">>}
     /\ (phase = "Idle" /\ phase' = "Running") =>
          /\ Range(tasks') = EnabledStrategies'
          /\ Cardinality(Range(tasks')) = Len(tasks')
          /\ PendingTasks' = DOMAIN tasks'
     /\ phase = "Running" =>
          /\ tasks' = tasks
          /\ \A i \in DOMAIN strategy_results :
               strategy_results[i].status # "pending" =>
                 strategy_results'[i] = strategy_results[i]
     /\ detection_results' # detection_results =>
          /\ phase = "Running"
          /\ phase' = "Finished"
     /\ (phase = "Running" /\ phase' = "Finished") =>
          /\ PendingTasks = {}
          /\ strategy_results' = strategy_results]_vars

\* A finished scan with all four strategies launched, one of which raised,
\* and a fused result from the others.
FinishedScanWithRaisedTaskAndResults ==
  /\ ScanFinished
  /\ Len(tasks) = 4
  /\ RaisedTasks # {}
  /\ detection_results # <<>>

-----------------------------------------------------------------------------
(* The HeuristicAnalyzer called directly *)

\* Longest response history explored.
MaxHistory == MaxLen + 2

HistoryEntry(metrics, by) == [metrics |-> metrics, scan |-> scan_no, by |-> by]

\* set_baseline, lines 52-55.
set_baseline(metrics) ==
  /\ baseline_metrics' = <<metrics>>
  /\ response_history' = Append(response_history, HistoryEntry(metrics, "set_baseline"))
  /\ last_call' = [op |-> "set_baseline", metrics |-> metrics, result |-> NoBaselineOutcome]

\* A caller sets the baseline.
SetBaseline ==
  /\ Len(response_history) < MaxHistory
  /\ \E metrics \in MetricsExplored : set_baseline(metrics)
  /\ UNCHANGED <<scan_no, h_pc, h_object_ids, h_index, h_results>>
  /\ UNCHANGED <<scan_vars, pattern_vars, differential_vars, blind_vars, concurrent_vars>>

\* A caller has a response analysed, with or without a baseline.
AnalyzeResponse ==
  /\ Len(response_history) < MaxHistory
  /\ \E metrics \in MetricsExplored :
       /\ last_call' = [op |-> "analyze_response", metrics |-> metrics,
                        result |-> analyze_response(baseline_metrics, response_history,
                                                    metrics)]
       /\ response_history' =
            HistoryAfterAnalysis(baseline_metrics, response_history,
                                 HistoryEntry(metrics, "analyze_response"))
  /\ UNCHANGED <<baseline_metrics, scan_no, h_pc, h_object_ids, h_index, h_results>>
  /\ UNCHANGED <<scan_vars, pattern_vars, differential_vars, blind_vars, concurrent_vars>>

AnalyzerNext == SetBaseline \/ AnalyzeResponse

AnalyzerSpec == Init /\ [][AnalyzerNext]_vars

\* C14: analyze_response called while no baseline is set gives an error
\* outcome, not a result with is_suspicious, confidence, indicators and
\* details, and leaves the response history (and the missing baseline) as
\* they were.
AnalysisWithoutBaselineIsAnError ==
  [][(baseline_metrics = <<>> /\ last_call'.op = "analyze_response") =>
       /\ last_call'.result.keys = {"error"}
       /\ response_history' = response_history
       /\ baseline_metrics' = baseline_metrics]_vars

\* analyze_response has just returned on an analyzer that never had a baseline.
AnalyzedWithoutBaseline ==
  /\ baseline_metrics = <<>>
  /\ last_call.op = "analyze_response"
  /\ last_call.metrics = DeniedMetrics
  /\ last_call.result.keys = {"error"}

\* The six dimensions of analyze_response, by the name each appends to
\* `indicators`, with its increment of the confidence.
DimensionIncrement ==
  [response_time_anomaly |-> RESPONSE_TIME_ANOMALY_CONFIDENCE,
   content_size_anomaly |-> CONTENT_SIZE_ANOMALY_CONFIDENCE,
   header_anomaly |-> HEADER_ANOMALY_CONFIDENCE,
   content_anomaly |-> CONTENT_ANOMALY_CONFIDENCE,
   json_structure_anomaly |-> JSON_STRUCTURE_ANOMALY_CONFIDENCE,
   combined_anomaly |-> COMBINED_ANOMALY_CONFIDENCE]

\* The dimensions that are anomalous for `metrics` against `baseline` and the
\* history the call found.
FiredDimensions(baseline, history, metrics) ==
  {d \in DOMAIN DimensionIncrement :
     CASE d = "response_time_anomaly" -> ResponseTimeAnomaly(baseline, metrics)
       [] d = "content_size_anomaly" -> ContentSizeAnomaly(baseline, metrics)
       [] d = "header_anomaly" -> HeaderAnomaly(baseline, metrics)
       [] d = "content_anomaly" -> ContentAnomaly(baseline, metrics)
       [] d = "json_structure_anomaly" -> JsonStructureAnomaly(baseline, metrics)
       [] d = "combined_anomaly" -> CombinedAnomaly(history)}

RECURSIVE SumOfIncrements(_)
SumOfIncrements(dimensions) ==
  IF dimensions = {} THEN 0
  ELSE LET d == CHOOSE x \in dimensions : TRUE
       IN DimensionIncrement[d] + SumOfIncrements(dimensions \ {d})

\* The history the last analyze_response call found: the call appended one
\* entry to it.
HistoryBeforeLastCall == SubSeq(response_history, 1, Len(response_history) - 1)

\* C15: for an analyze_response call with a baseline set, the confidence
\* returned is min(0.95, sum of the increments of the dimensions that fired),
\* indicators holds exactly the names of the fired dimensions, each once, and
\* is_suspicious is true iff at least 2 indicators fired or confidence > 0.5.
ConfidenceIsCappedSumOfFiredDimensions ==
  (last_call.op = "analyze_response" /\ baseline_metrics # <<>>) =>
    LET fired == FiredDimensions(baseline_metrics[1], HistoryBeforeLastCall,
                                 last_call.metrics)
        result == last_call.result
    IN /\ result.confidence = Min2(HEURISTIC_CONFIDENCE_CAP, SumOfIncrements(fired))
       /\ Range(result.indicators) = fired
       /\ Len(result.indicators) = Cardinality(fired)
       /\ result.is_suspicious <=>
            (Len(result.indicators) >= 2 \/ result.confidence > 50)

\* Calls with a baseline whose results are: suspicious with two indicators
\* and confidence 0.35; all six dimensions fired and confidence capped at
\* 0.95; one indicator and not suspicious. The last state shown is the capped one.
CappedAnalysisAfterLowConfidenceSuspicion ==
  /\ last_call.op = "analyze_response"
  /\ baseline_metrics = <<PlainMetrics>>
  /\ last_call.metrics = AlarmingMetrics
  /\ Len(last_call.result.indicators) = 6
  /\ last_call.result.confidence = HEURISTIC_CONFIDENCE_CAP
  /\ \E i \in DOMAIN response_history :
       /\ response_history[i].by = "analyze_response"
       /\ response_history[i].metrics = AdminMetrics
       /\ analyze_response(baseline_metrics, <<>>, AdminMetrics).is_suspicious
       /\ analyze_response(baseline_metrics, <<>>, AdminMetrics).confidence = 35
  /\ ~analyze_response(baseline_metrics, <<>>, SlowMetrics).is_suspicious

-----------------------------------------------------------------------------
(* _heuristic_detection step by step, scan after scan on one detector *)

\* The scans of one detector explored: a first and a second.
ScanNumbers == {1, 2}

\* The responses the target gives during the scans.
ScanMetrics == {PlainMetrics, SlowMetrics, DeniedMetrics}

\* The break of line 292 leaves the baseline loop for the analysis loop.
BaselineLoopContinues == "baseline"

BaselineLoopExit == "analysis"

\* Lines 276-281: comprehensive_scan enters the coroutine; session_factory may
\* raise. Nothing of the analyzer is reset.
HeuristicScanStart ==
  /\ h_pc \in {"idle", "returned", "raised"}
  /\ scan_no + 1 \in ScanNumbers
  /\ scan_no' = scan_no + 1
  /\ \E ids \in ObjectIdSequences, factory_ok \in BOOLEAN :
       /\ h_object_ids' = ids
       /\ h_pc' = IF factory_ok THEN "baseline" ELSE "raised"
  /\ h_index' = 1
  /\ h_results' = <<>>
  /\ UNCHANGED <<baseline_metrics, response_history, last_call>>
  /\ UNCHANGED <<scan_vars, pattern_vars, differential_vars, blind_vars, concurrent_vars>>

\* Lines 282-293, one iteration of the baseline loop: the request raises and
\* the loop continues, or its metrics become the baseline and the loop ends.
BaselineRequest ==
  /\ h_pc = "baseline"
  /\ h_index <= Len(h_object_ids)
  /\ \/ /\ h_index' = h_index + 1
        /\ UNCHANGED <<baseline_metrics, response_history, last_call, h_pc>>
     \/ /\ \E metrics \in ScanMetrics : set_baseline(metrics)
        /\ h_pc' = BaselineLoopExit
        /\ h_index' = IF BaselineLoopExit = "analysis" THEN 1 ELSE h_index + 1
  /\ UNCHANGED <<scan_no, h_object_ids, h_results>>
  /\ UNCHANGED <<scan_vars, pattern_vars, differential_vars, blind_vars, concurrent_vars>>

\* Lines 295-296: the baseline loop ended without a baseline.
BaselineMissing ==
  /\ h_pc = "baseline"
  /\ h_index > Len(h_object_ids)
  /\ h_pc' = "returned"
  /\ UNCHANGED <<baseline_metrics, response_history, last_call, scan_no,
                 h_object_ids, h_index, h_results>>
  /\ UNCHANGED <<scan_vars, pattern_vars, differential_vars, blind_vars, concurrent_vars>>

\* Lines 313-314: results[obj_id] = {'error': str(e)}.
HeuristicErrorEntry ==
  [keys |-> {"error"}, is_suspicious |-> FALSE, confidence |-> 0, indicators |-> <<>>]

\* Lines 299-314, one iteration of the analysis loop: the request raises, or
\* its metrics are analysed and filed when suspicious.
AnalysisRequest ==
  /\ h_pc = "analysis"
  /\ h_index <= Len(h_object_ids)
  /\ h_index' = h_index + 1
  /\ \/ /\ h_results' = Put(h_results, h_object_ids[h_index], HeuristicErrorEntry)
        /\ UNCHANGED <<response_history, last_call>>
     \/ \E metrics \in ScanMetrics :
          LET result == analyze_response(baseline_metrics, response_history, metrics)
          IN /\ last_call' = [op |-> "analyze_response", metrics |-> metrics,
                              result |-> result]
             /\ response_history' =
                  HistoryAfterAnalysis(baseline_metrics, response_history,
                                       HistoryEntry(metrics, "analyze_response"))
             /\ h_results' = IF result.is_suspicious
                             THEN Put(h_results, h_object_ids[h_index], result)
                             ELSE h_results
  /\ UNCHANGED <<baseline_metrics, scan_no, h_pc, h_object_ids>>
  /\ UNCHANGED <<scan_vars, pattern_vars, differential_vars, blind_vars, concurrent_vars>>

\* Line 316.
HeuristicReturn ==
  /\ h_pc = "analysis"
  /\ h_index > Len(h_object_ids)
  /\ h_pc' = "returned"
  /\ UNCHANGED <<baseline_metrics, response_history, last_call, scan_no,
                 h_object_ids, h_index, h_results>>
  /\ UNCHANGED <<scan_vars, pattern_vars, differential_vars, blind_vars, concurrent_vars>>

HeuristicScanNext ==
  \/ HeuristicScanStart
  \/ BaselineRequest
  \/ BaselineMissing
  \/ AnalysisRequest
  \/ HeuristicReturn

HeuristicScanSpec == Init /\ [][HeuristicScanNext]_vars

\* The positions in the response history of the entries a method appended
\* during scan n.
EntriesOf(n, by) ==
  {i \in DOMAIN response_history :
     response_history[i].scan = n /\ response_history[i].by = by}

\* C16: within one scan set_baseline is called at most once and before every
\* analyze_response call of that scan, and from then on the baseline is the
\* value that call set: no later response of the scan replaces it.
BaselineSetOncePerScanBeforeAnalysis ==
  /\ [](\A n \in ScanNumbers :
          /\ Cardinality(EntriesOf(n, "set_baseline")) <= 1
          /\ \A a \in EntriesOf(n, "analyze_response") :
               \E b \in EntriesOf(n, "set_baseline") : b < a)
  /\ [](h_pc = "analysis" =>
          \E b \in EntriesOf(scan_no, "set_baseline") :
            baseline_metrics = <<response_history[b].metrics>>)
  /\ [][h_pc = "analysis" => baseline_metrics' = baseline_metrics]_vars

\* A second scan that analysed two responses different from its baseline and
\* from the first scan's baseline, and returned.
SecondScanAnalysedAgainstItsOwnBaseline ==
  /\ scan_no = 2
  /\ h_pc = "returned"
  /\ Cardinality(EntriesOf(2, "analyze_response")) = 2
  /\ baseline_metrics = <<DeniedMetrics>>
  /\ \E b \in EntriesOf(1, "set_baseline") : response_history[b].metrics = PlainMetrics
  /\ \A a \in EntriesOf(2, "analyze_response") : response_history[a].metrics = SlowMetrics

\* C17: no state crosses scans: while a scan runs, the heuristic analyzer's
\* response history holds responses of that scan only; at the start of a
\* second scan it holds no response of the first.
ResponseHistoryIsScanScoped ==
  h_pc \in {"baseline", "analysis"} =>
    \A i \in DOMAIN response_history : response_history[i].scan = scan_no

-----------------------------------------------------------------------------
(* The PatternMatcher called directly *)

\* Most calls of analyze on one matcher explored.
MaxCalls == MaxLen + 1

\* A caller calls pattern_matcher.analyze: first on any explored triple, then
\* on the triple of the first call again or on another triple.
PatternAnalyze ==
  /\ pm_call.n < MaxCalls
  /\ \E triple \in (IF pm_call.n = 0 THEN PatternTriples
                    ELSE {pm_first.arguments} \cup OtherTriples) :
       LET findings == PatternMatcherAnalyze(triple.response_data, triple.baseline_data,
                                             triple.context)
           call == [n |-> pm_call.n + 1,
                    others |-> IF pm_call.n = 0 \/ triple = pm_first.arguments
                               THEN pm_call.others ELSE pm_call.others + 1,
                    arguments |-> triple, arguments_after |-> triple,
                    findings |-> findings]
       IN /\ pm_call' = call
          /\ pm_first' = IF pm_call.n = 0 THEN call ELSE pm_first
          /\ pm_attributes' = PatternAttributesAfter(pm_attributes, findings)
  /\ UNCHANGED <<scan_vars, heuristic_vars, differential_vars, blind_vars,
                 concurrent_vars>>

PatternSpec == Init /\ [][PatternAnalyze]_vars

\* The Findings of the horizontal pattern in the list the last call returned.
HorizontalFindings ==
  {i \in DOMAIN pm_call.findings : pm_call.findings[i].type = IDOR_HORIZONTAL}

\* C18: PatternMatcher.analyze returns a Finding of the horizontal type, and
\* then exactly one, with confidence 0.8, iff the context's ownership field
\* (owner_id when the context names none) is in the current response with a
\* value different from context.current_user_id; for current = {owner_id: 101}
\* and context = {ownership_field: owner_id, current_user_id: 1} the list
\* returned is exactly that one Finding.
HorizontalRule ==
  pm_call.n > 0 =>
    LET current == pm_call.arguments.response_data
        context == pm_call.arguments.context
        owner_field == Get(context, "ownership_field", "owner_id")
    IN /\ HorizontalFindings # {} <=>
            /\ owner_field \in DOMAIN current
            /\ current[owner_field] # Get(context, "current_user_id", "None")
       /\ Cardinality(HorizontalFindings) <= 1
       /\ \A i \in HorizontalFindings : pm_call.findings[i].confidence = 80
       /\ (/\ current = ("owner_id" :> "101")
           /\ context = ("ownership_field" :> "owner_id") @@ ("current_user_id" :> "1"))
            => pm_call.findings =
                 <<PatternFinding("Gorizontalnyj IDOR", IDOR_HORIZONTAL, 80)>>

\* The example call, made against a non-empty baseline, has returned its
\* single Finding.
HorizontalExampleAnalysed ==
  /\ pm_call.n = 1
  /\ pm_call.arguments.response_data = ("owner_id" :> "101")
  /\ pm_call.arguments.baseline_data # <<>>
  /\ pm_call.arguments.context =
       ("ownership_field" :> "owner_id") @@ ("current_user_id" :> "1")
  /\ Len(pm_call.findings) = 1
  /\ HorizontalFindings = {1}

-----------------------------------------------------------------------------
(* The DifferentialAnalyzer judging one object *)

\* _analyze_object_access hands the access_results of one object to
\* _analyze_differential_patterns (line 104).
DifferentialAnalyze ==
  /\ df_call.n < MaxCalls
  /\ \E access_results \in AccessResultsExplored :
       df_call' = [n |-> df_call.n + 1, access_results |-> access_results,
                   result |-> analyze_differential_patterns(access_results)]
  /\ UNCHANGED <<scan_vars, heuristic_vars, pattern_vars, blind_vars, concurrent_vars>>

DifferentialSpec == Init /\ [][DifferentialAnalyze]_vars

\* guest, user and admin are configured and each got status 200.
UniformAccess(access_results) ==
  /\ DOMAIN access_results = ACCESS_LEVELS
  /\ \A level \in ACCESS_LEVELS : access_results[level].status_code = 200

\* C20: when guest, user and admin all get status 200 for an object, the
\* analyzer returns for it a Finding of type auth_bypass with confidence 0.6,
\* also when no other check has a signal.
UniformAccessGivesAuthBypass ==
  (df_call.n > 0 /\ UniformAccess(df_call.access_results)) =>
    /\ df_call.result # <<>>
    /\ df_call.result[1].vulnerability_type = "auth_bypass"
    /\ df_call.result[1].confidence = 60

-----------------------------------------------------------------------------
(* The risk score of a DifferentialResult *)

\* The confidence a check contributes: its own when it detected, else 0.
OwnConfidence(check) == IF check.detected THEN check.confidence ELSE 0

\* The weighted sum of the four checks' own confidences, in hundredths.
WeightedOwnConfidences(access_results) ==
  (PRIVILEGE_ESCALATION_WEIGHT
     * OwnConfidence(check_privilege_escalation(access_results))) \div 100
  + (DATA_EXPOSURE_WEIGHT
       * OwnConfidence(check_data_exposure(access_results))) \div 100
  + (FUNCTIONALITY_ACCESS_WEIGHT
       * OwnConfidence(check_functionality_access(access_results))) \div 100
  + (BYPASS_AUTHORIZATION_WEIGHT
       * OwnConfidence(check_authorization_bypass(access_results))) \div 100

\* C21: the risk_score of every emitted DifferentialResult is
\* min(1.0, 0.4*c_privilege_escalation + 0.3*c_data_exposure
\* + 0.2*c_functionality_access + 0.1*c_bypass_authorization), each c being
\* that check's own confidence when it detected and 0 otherwise.
RiskScoreIsWeightedSumOfOwnConfidences ==
  (df_call.n > 0 /\ df_call.result # <<>>) =>
    df_call.result[1].risk_score
      = Min2(100, WeightedOwnConfidences(df_call.access_results))

\* A result in which a later check detected with a confidence below the
\* combined one.
ResultWithCheckBelowCombinedConfidence ==
  /\ df_call.n > 0
  /\ df_call.result # <<>>
  /\ check_privilege_escalation(df_call.access_results).detected
  /\ check_data_exposure(df_call.access_results).detected
  /\ check_data_exposure(df_call.access_results).confidence
       < df_call.result[1].confidence

-----------------------------------------------------------------------------
(* The BlindIDORDetector called directly *)

MaxTimedIds == MaxLen + 4

\* The ids 0 .. k-1 in order.
FirstIds(k) == [i \in 1..k |-> i - 1]

\* The object_ids explored: the first k ids, and short lists that name id 0
\* twice.
BlindIdSequences ==
  {FirstIds(k) : k \in 1..MaxTimedIds}
    \cup {Append(FirstIds(k), 0) : k \in 1..MaxLen}

\* What the target does for one object, with mean times of 0.1 s and 5.0 s.
QuickObservation == BlindObservation(FALSE, "data", FALSE, FALSE, 1)
SlowObservation == BlindObservation(FALSE, "data", FALSE, FALSE, 50)
FailedObservation == BlindObservation(TRUE, "", FALSE, FALSE, 0)
NotFoundObservation == BlindObservation(FALSE, "not found", FALSE, FALSE, 1)
OpenObservation == BlindObservation(FALSE, "open", TRUE, TRUE, 1)

BlindObservationsExplored ==
  {QuickObservation, SlowObservation, FailedObservation, NotFoundObservation,
   OpenObservation}

\* detect_blind_idor, lines 47-74: test_results is reset, then extended by
\* each technique in turn, and returned. Since a pass starts by resetting
\* test_results (line 52) it does not depend on earlier passes; one pass of
\* the fresh detector is explored.
DetectBlindIdor ==
  /\ ~bd_call.called
  /\ \E ids \in BlindIdSequences :
       \E observations \in [Range(ids) -> BlindObservationsExplored] :
         bd_call' = [called |-> TRUE, object_ids |-> ids,
                     observations |-> observations,
                     test_results |-> detect_blind_idor(ids, observations)]
  /\ UNCHANGED <<scan_vars, heuristic_vars, pattern_vars, differential_vars,
                 concurrent_vars>>

BlindSpec == Init /\ [][DetectBlindIdor]_vars

\* The ids the timing technique flagged in the last pass.
TimingFlagged ==
  LET timing == SelectSeq(bd_call.test_results,
                          LAMBDA r : r.method = "timing_based")
  IN IF timing = <<>> THEN {} ELSE Range(timing[1].evidence.anomalies)

\* The pass of the example: five ids, mean times 0.1, 0.1, 0.1, 0.1 and 5.0.
TimingExamplePass ==
  /\ bd_call.called
  /\ bd_call.object_ids = FirstIds(5)
  /\ \A id \in 0..3 : bd_call.observations[id] = QuickObservation
  /\ bd_call.observations[4] = SlowObservation

\* C22: timing-based detection flags the ids whose z-score over the valid
\* per-id mean times is above 2.0; for the mean times [0.1, 0.1, 0.1, 0.1, 5.0]
\* over 5 ids the id with 5.0 is flagged and no other id is.
TimingExampleFlagsOnlyTheSlowId ==
  TimingExamplePass => TimingFlagged = {4}

\* Six ids, five with mean time 0.1 and the last with 5.0: the last is flagged.
SixthSlowIdIsFlagged ==
  /\ bd_call.called
  /\ bd_call.object_ids = FirstIds(6)
  /\ \A id \in 0..4 : bd_call.observations[id] = QuickObservation
  /\ bd_call.observations[5] = SlowObservation
  /\ TimingFlagged = {5}

-----------------------------------------------------------------------------
(* Recommendations of a fused result *)

\* The kinds of Finding the rule table of _generate_recommendations names, by
\* the 'type' such a Finding carries when it reaches the fused list (pattern
\* findings carry pattern.idor_type.value, the others the translated name),
\* with the two strings of the rule.
RecommendationRules ==
  { [type |-> IDOR_HORIZONTAL,
     strings |-> {"validate ownership", "check user_id in endpoints"}],
    [type |-> IDOR_VERTICAL,
     strings |-> {"role-based access control", "remove admin data"}],
    [type |-> translate_vulnerability_type("heuristic_anomaly"),
     strings |-> {"investigate response patterns", "standardise error messages"}],
    [type |-> translate_vulnerability_type("privilege_escalation"),
     strings |-> {"fix privilege escalation", "strict authorization checks"}],
    [type |-> translate_vulnerability_type("data_exposure"),
     strings |-> {"remove sensitive data", "filter data by role"}] }

\* C23: the recommendations of a fused result hold the generic tail, and the
\* two strings of the rule for horizontal, vertical, heuristic-anomaly,
\* privilege_escalation and data_exposure whenever a Finding of that kind is
\* in the result.
RecommendationsFollowRuleTable ==
  phase = "Finished" =>
    \A i \in DOMAIN detection_results :
      /\ GenericRecommendations \subseteq detection_results[i].recommendations
      /\ \A rule \in RecommendationRules :
           (\E j \in DOMAIN detection_results[i].vulnerabilities :
              detection_results[i].vulnerabilities[j].type = rule.type)
             => rule.strings \subseteq detection_results[i].recommendations

-----------------------------------------------------------------------------
(* One pass of detect_blind_idor *)

\* The techniques in the order detect_blind_idor runs them, and their caps.
BlindMethods ==
  <<"timing_based", "error_pattern", "response_variance", "behavioral", "side_channel">>

BlindCaps ==
  <<TIMING_CAP, ERROR_PATTERN_CAP, RESPONSE_VARIANCE_CAP, BEHAVIORAL_CAP, SIDE_CHANNEL_CAP>>

MethodRank(method) == CHOOSE k \in DOMAIN BlindMethods : BlindMethods[k] = method

\* C24: in one detect_blind_idor pass each of the five techniques produces at
\* most one Finding, in the order timing, error-pattern, response-variance,
\* behavioral, side-channel; a Finding is produced only when the technique
\* found at least one anomaly, and its confidence is
\* min(anomaly_count / id_count, cap) with cap 0.8, 0.7, 0.6, 0.5, 0.4
\* respectively, hence in (0, cap].
BlindPassGivesOneCappedFindingPerTechnique ==
  bd_call.called =>
    LET results == bd_call.test_results
    IN /\ Len(results) <= 5
       /\ \A i \in DOMAIN results : results[i].method \in Range(BlindMethods)
       /\ \A i, j \in DOMAIN results :
            i < j => MethodRank(results[i].method) < MethodRank(results[j].method)
       /\ \A i \in DOMAIN results :
            LET anomaly_count == Len(results[i].evidence.anomalies)
                id_count == Len(bd_call.object_ids)
                cap == BlindCaps[MethodRank(results[i].method)]
            IN /\ anomaly_count >= 1
               /\ results[i].confidence = Min2((anomaly_count * 100) \div id_count, cap)
               /\ results[i].confidence > 0
               /\ results[i].confidence <= cap

\* A pass in which all five techniques reported, one of them below its cap
\* and one of them cut down to its cap.
AllFiveTechniquesReported ==
  /\ bd_call.called
  /\ Len(bd_call.test_results) = 5
  /\ \E i \in DOMAIN bd_call.test_results :
       bd_call.test_results[i].confidence
         < BlindCaps[MethodRank(bd_call.test_results[i].method)]
  /\ \E i \in DOMAIN bd_call.test_results :
       (Len(bd_call.test_results[i].evidence.anomalies) * 100)
           \div Len(bd_call.object_ids)
         > bd_call.test_results[i].confidence

-----------------------------------------------------------------------------
(* The strategy tasks of a scan interleaved *)

\* Lines 116-131 and 134: the pattern-matching, differential and blind
\* coroutines run as tasks next to _heuristic_detection. One request of one of
\* them is answered and processed: lines 181-267, 318-336 and 338-373 work on
\* the task's locals, on pattern_matcher, differential_analyzer and
\* blind_detector, and never name heuristic_analyzer.
OtherTaskRequest ==
  /\ scan_no >= 1
  /\ \E strategy \in Strategies \ {HEURISTIC} :
       /\ requests_made[strategy] < MaxLen
       /\ requests_made' = [requests_made EXCEPT ![strategy] = @ + 1]
  /\ UNCHANGED <<scan_vars, heuristic_vars, pattern_vars, differential_vars, blind_vars>>

ConcurrentScanNext == HeuristicScanNext \/ OtherTaskRequest

ConcurrentScanSpec == Init /\ [][ConcurrentScanNext]_vars

\* The step is one of the heuristic strategy's loop: its position moves.
HeuristicLoopStep ==
  /\ h_pc \in {"baseline", "analysis"}
  /\ h_pc' # h_pc \/ h_index' # h_index

-----------------------------------------------------------------------------
(* The blind-structural pattern *)

\* Response and baseline bodies that differ in which fields they have and in
\* the values of up to five shared fields.
StructuralFieldValues ==
  [owner_id |-> {"1", "101"}, user_id |-> {"1", "2"}, salary |-> {"5000", "6000"},
   status |-> {"active", "draft"}, created_at |-> {"t1", "t2"}, title |-> {"report"}]

StructuralResponses == DictsOver(DOMAIN StructuralFieldValues, StructuralFieldValues)

StructuralBaselines ==
  DictsOver(DOMAIN StructuralFieldValues,
            [owner_id |-> {"1"}, user_id |-> {"1"}, salary |-> {"5000"},
             status |-> {"active"}, created_at |-> {"t1"}, title |-> {"report"}])

\* A caller calls pattern_matcher.analyze once on a response and a baseline,
\* with an empty context.
StructuralAnalyze ==
  /\ pm_call.n = 0
  /\ \E response_data \in StructuralResponses, baseline_data \in StructuralBaselines :
       LET triple == PatternTriple(response_data, baseline_data, <<>>)
           findings == PatternMatcherAnalyze(response_data, baseline_data, <<>>)
           call == [n |-> 1, others |-> 0, arguments |-> triple,
                    arguments_after |-> triple, findings |-> findings]
       IN /\ pm_call' = call
          /\ pm_first' = call
          /\ pm_attributes' = PatternAttributesAfter(pm_attributes, findings)
  /\ UNCHANGED <<scan_vars, heuristic_vars, differential_vars, blind_vars,
                 concurrent_vars>>

StructuralSpec == Init /\ [][StructuralAnalyze]_vars

\* The Findings of the blind-structural pattern in the list the last call
\* returned.
BlindFindings ==
  SelectSeq(pm_call.findings, LAMBDA f : f.type = IDOR_BLIND)

\* The four terms of the score for the arguments of the last call, in
\* hundredths.
StructuralScore ==
  LET response_data == pm_call.arguments.response_data
      baseline_data == pm_call.arguments.baseline_data
      shared == DOMAIN response_data \cap DOMAIN baseline_data
  IN (IF \E k \in DOMAIN response_data : k \notin DOMAIN baseline_data THEN 20 ELSE 0)
     + (IF \E k \in DOMAIN baseline_data : k \notin DOMAIN response_data THEN 10 ELSE 0)
     + (IF Cardinality({k \in shared : response_data[k] # baseline_data[k]}) > 3
        THEN 30 ELSE 0)
     + (IF Cardinality({k \in DOMAIN response_data : k \in ID_LIKE_FIELDS}) > 1
        THEN 20 ELSE 0)

\* C26: the blind-structural score is +0.2 for fields absent from the
\* baseline, +0.1 for baseline fields the response lacks, +0.3 when more than
\* 3 shared fields differ in value, +0.2 when more than one field name ends in
\* 'id'; the pattern yields a Finding iff the score is strictly greater than
\* 0.4, and the confidence reported is min(score, 0.8).
BlindStructuralRule ==
  pm_call.n > 0 =>
    /\ Len(BlindFindings) <= 1
    /\ BlindFindings # <<>> <=> StructuralScore > 40
    /\ BlindFindings # <<>> =>
         BlindFindings[1].confidence = Min2(StructuralScore, BLIND_PATTERN_CAP)

\* A call whose score is exactly 0.4, from missing fields and more than three
\* differing values, and which returned no blind Finding.
ScoreOfExactlyTheThresholdDidNotFire ==
  /\ pm_call.n > 0
  /\ StructuralScore = 40
  /\ DOMAIN pm_call.arguments.baseline_data \ DOMAIN pm_call.arguments.response_data # {}
  /\ BlindFindings = <<>>

-----------------------------------------------------------------------------
(* The authorization-bypass check *)

\* status_codes.get(level, 0) of the access_results of the last call.
StatusOf(level) ==
  IF level \in DOMAIN df_call.access_results
  THEN df_call.access_results[level].status_code ELSE 0

GuestAboveUser == StatusOf("guest") = 200 /\ StatusOf("user") # 200

AllConfiguredLevelsGet200 ==
  /\ DOMAIN df_call.access_results # {}
  /\ \A level \in DOMAIN df_call.access_results : StatusOf(level) = 200

\* C27: the authorization-bypass check reports confidence 0.8 whenever guest
\* gets status 200 while user does not (also when no user level is configured
\* or the user request failed), and 0.6 when all configured levels return
\* status 200; the 0.8 of the guest-over-user rule is never lowered by the
\* uniform-access rule.
GuestAboveUserIsNeverLowered ==
  df_call.n > 0 =>
    LET check == check_authorization_bypass(df_call.access_results)
    IN /\ GuestAboveUser =>
            (check.detected /\ check.confidence = GUEST_ABOVE_USER_CONFIDENCE)
       /\ (AllConfiguredLevelsGet200 /\ ~GuestAboveUser) =>
            (check.detected /\ check.confidence = UNIFORM_ACCESS_CONFIDENCE)

-----------------------------------------------------------------------------
(* The risk score of a fused result that holds a differential Finding *)

\* What _differential_detection returns (lines 327-336) when the analyzer's
\* last call was about obj_id and emitted a DifferentialResult, and what
\* _pattern_based_detection returns when it has PatternFindings for obj_id.
StrategyResultsWithLastDifferential(obj_id) ==
  << Returned(PATTERN_BASED, FALSE,
              Put(EmptyResults, obj_id,
                  ObjData({"vulnerabilities", "baseline_data", "current_data"},
                          PatternFindings, NoHeuristics, NoDifferential, <<>>))),
     Returned(DIFFERENTIAL, FALSE,
              IF df_call.result = <<>> THEN EmptyResults
              ELSE Put(EmptyResults, obj_id,
                       ObjData({"differential", "vulnerability_type", "confidence",
                                "risk_score"},
                               <<>>, NoHeuristics, df_call.result[1], <<>>))) >>

\* The lists _combine_detection_results makes of them, for every object id
\* and every confidence_threshold explored.
FusedWithLastDifferential ==
  {combine_detection_results(StrategyResultsWithLastDifferential(obj_id), <<obj_id>>,
                             confidence_threshold, 1) :
     obj_id \in ObjectIdValues, confidence_threshold \in ConfidenceThresholds}

\* C28: every fused result has risk_score <= overall_confidence: only
\* differential Findings carry a risk_score, and it is a weighted sum, with
\* weights summing to 1.0, of check confidences, so it does not exceed the
\* confidence of the DifferentialResult.
RiskScoreWithinOverallConfidence ==
  df_call.n > 0 =>
    /\ df_call.result # <<>> => df_call.result[1].risk_score <= df_call.result[1].confidence
    /\ \A fused \in FusedWithLastDifferential :
         \A i \in DOMAIN fused : fused[i].risk_score <= fused[i].overall_confidence

\* All four checks detected; a fused result carries the risk score of the
\* DifferentialResult, above 0.6 and below its overall confidence.
FusedResultWithRiskFromFourChecks ==
  /\ df_call.n > 0
  /\ df_call.result # <<>>
  /\ Cardinality(df_call.result[1].evidence) = 4
  /\ df_call.result[1].risk_score > 60
  /\ \E fused \in FusedWithLastDifferential :
       /\ Len(fused) = 1
       /\ fused[1].risk_score = df_call.result[1].risk_score
       /\ fused[1].risk_score < fused[1].overall_confidence

-----------------------------------------------------------------------------
(* One fused result per object *)

\* C29: the list comprehensive_scan returns holds at most one fused result
\* per distinct object id, and every fused result's object_id is one of the
\* requested object_ids, also when the requested sequence repeats an id.
AtMostOneResultPerObject ==
  phase = "Finished" =>
    /\ \A i, j \in DOMAIN detection_results :
         detection_results[i].object_id = detection_results[j].object_id => i = j
    /\ \A i \in DOMAIN detection_results :
         detection_results[i].object_id \in Range(object_ids)

-----------------------------------------------------------------------------
(* The strategies a fused result lists *)

\* The strategies whose task returned a results dictionary with a bucket for
\* obj_id.
StrategiesWithBucket(obj_id) ==
  {ReturnedResults[i].strategy :
     i \in {j \in DOMAIN ReturnedResults : obj_id \in DOMAIN ReturnedResults[j].results}}

\* The result holds a Finding built from a bucket of the strategy.
HoldsFindingOf(result, strategy) ==
  \E k \in DOMAIN result.vulnerabilities :
    result.vulnerabilities[k].evidence.kind = FindingKind(strategy)

\* C30 as stated: every strategy named in strategies_used, and every key of
\* evidence, contributed at least one Finding to the result's vulnerabilities;
\* a strategy that only recorded a per-object error for the object is not
\* listed.
ListedStrategiesContributedFinding ==
  phase = "Finished" =>
    \A i \in DOMAIN detection_results :
      \A strategy \in Range(detection_results[i].strategies_used)
                        \cup DOMAIN detection_results[i].evidence :
        HoldsFindingOf(detection_results[i], strategy)

\* C30, amended: strategies_used and the keys of evidence name exactly the
\* strategies that returned a bucket for the object; each of them contributed
\* at least one Finding or recorded a per-object error, which is kept as its
\* evidence; a strategy that produced nothing for the object is not listed.
ListedStrategiesHaveBucket ==
  phase = "Finished" =>
    \A i \in DOMAIN detection_results :
      LET result == detection_results[i]
      IN /\ Range(result.strategies_used) = StrategiesWithBucket(result.object_id)
         /\ DOMAIN result.evidence = StrategiesWithBucket(result.object_id)
         /\ \A strategy \in Range(result.strategies_used) :
              \/ HoldsFindingOf(result, strategy)
              \/ result.evidence[strategy].keys = {"error"}

\* A fused result that lists a strategy which recorded only an error for the
\* object, next to one that contributed a Finding.
ResultListsStrategyWithErrorOnly ==
  /\ phase = "Finished"
  /\ \E i \in DOMAIN detection_results :
       \E failed, found \in Range(detection_results[i].strategies_used) :
         /\ detection_results[i].evidence[failed].keys = {"error"}
         /\ ~HoldsFindingOf(detection_results[i], failed)
         /\ HoldsFindingOf(detection_results[i], found)

====
